---------------------------- MODULE Spec2Model ----------------------------
(***************************************************************************)
(* A model of docker/anomaly-detection/src/detector.py: the streaming      *)
(* per-signal anomaly detector (AnomalyDetector.add_sample), the polling   *)
(* loop of main() that drives it and the health thread beside it; of the   *)
(* publish loop of docker/opcua-gateway/src/gateway.py; and of three other *)
(* containers of the fleet: the file handler of                            *)
(* docker/test-data-collector/src/collector.py, BatteryPackState.update of *)
(* docker/ev-battery-simulator/src/simulator.py and perform_inspection of  *)
(* docker/vision-simulator/src/simulator.py.                               *)
(*                                                                         *)
(* Numbers.  Samples are integers and the baseline arithmetic is exact:    *)
(* a mean is the rational <<sum, count>>, a standard deviation is kept as  *)
(* its square (the population variance, a rational), and a z-score as its  *)
(* square.  z > threshold is decided by cross-multiplying the squares,     *)
(* which is the comparison of the real numbers because z >= 0 and          *)
(* threshold > 0.  Of the rounding of IEEE doubles one effect is           *)
(* modelled, under SpecRounding only: a quotient that equals the threshold *)
(* exactly may be rounded to the next double above it (the variable        *)
(* rounding); every other specification reads the arithmetic exactly.  A   *)
(* nan sample is the value NanSample, which makes every mean, deviation    *)
(* and z-score computed from it nan.                                       *)
(***************************************************************************)
EXTENDS Integers, Sequences, FiniteSets, TLC

(***************************************************************************)
(* Bounds of the model.                                                    *)
(***************************************************************************)
\* WINDOW_SIZE is drawn from 1..MaxWindow
MaxWindow == 4
\* add_sample calls made by the detector's client in SpecDetector
MaxSamples == 6
\* polling cycles of main() in Spec
MaxCycles == 3
\* reads (get_value calls) of main() in Spec, over all cycles
MaxReads == 7

\* the values node.get_value() may return in Spec
ReadValues == {0, 1}

\* the values the detector's client passes to add_sample in SpecDetector
SampleValues == {0, 1, 3}

\* ANOMALY_THRESHOLD, a positive rational <<numerator, denominator>>
Thresholds == {<<1, 2>>, <<1, 1>>}

\* the WINDOW_SIZE and ANOMALY_THRESHOLD settings main() is run with in Spec:
\* with 2 a window is full in the second cycle, with 4 the first cycle of a
\* signal is its warm-up
MainWindowSizes == {2, 4}

MainThresholds == {<<1, 2>>}

\* MONITORED_TAGS, by display name, in the configured order
MONITORED_TAGS == <<"Vibration", "Temperature", "Pressure">>

\* the signal names the detector's client uses in SpecDetector
Signals == {"Vibration", "Temperature"}

\* Python's None, for a z-score or a mean that is not reported
None == <<>>

\* numpy's nan, the result of 0.0 / 0.0
NaN == <<0, 0>>

\* float('nan') as a sample: a value no arithmetic is done with
NanSample == -1

VARIABLES
    window_size,        \* AnomalyDetector.window_size
    threshold,          \* AnomalyDetector.threshold, <<numerator, denominator>>
    rounding,           \* binary64 arithmetic: "exact", or "up" when a quotient rounds upwards
    history,            \* AnomalyDetector.history: signal name -> window (deque)
    pushed,             \* history variable: signal name -> every value ever pushed
    lastCall,           \* history variable: the last add_sample call and what it did
    lastClass,          \* history variable: signal name -> classification of its latest sample
    pc,                 \* main(): where the main thread is
    iot_client,         \* main(): "None", "unconnected" (created, connect failed) or "connected"
    client,             \* main(): the OPC-UA client: "new", "connected" or "failed"
    nodes,              \* main(): the display names of the nodes found, in order
    idx,                \* main(): position of the running for loop (1-based)
    anomaly_count,      \* main(): anomalies since the loop was entered
    anomalies_detected, \* main(): the batch of the running cycle
    cycle,              \* history variable: number of the running cycle (its timestamp)
    outcome,            \* history variable: monitored tag -> what this cycle did with it
    reads,              \* history variable: number of get_value calls so far
    alerts,             \* history variable: the payloads handed to send_message, in order
    released,           \* history variable: <<connection, how its disconnect() ended>>
    logged,             \* history variable: the WARNING and ERROR messages logged so far
    health_server,      \* the health thread: "not started", "listening" or "failed"
    health_response,    \* the health thread: the status of its last response: "none", "200" or "404"
    gw_pc,              \* gateway.py main(): where the coroutine is
    gw_iot_client,      \* gateway.py main(): "None" or "connected"
    gw_nodes,           \* gateway.py main(): the tag paths of the nodes found, in order
    gw_idx,             \* gateway.py main(): position of the running for loop (1-based)
    gw_telemetry,       \* gateway.py main(): telemetry["tags"], tag name -> value
    gw_cycle,           \* history variable: number of the running publish cycle
    gw_sends,           \* history variable: the send_message calls, in order
    gw_logged,          \* history variable: the WARNING and ERROR messages logged so far
    gw_released,        \* history variable: <<connection, how its disconnect() ended>>
    col_pc,             \* collector.py main(): where the main thread is
    col_blob_service,   \* collector.py TestResultHandler.blob_service: "None" or "client"
    col_iot_client,     \* collector.py TestResultHandler.iot_client: "None", "unconnected" or "connected"
    col_processed_files, \* collector.py TestResultHandler.processed_files
    col_uploads,        \* history variable: the file hashes of the blobs uploaded, in order
    col_sends,          \* history variable: the file hashes of the summaries sent, in order
    col_log,            \* history variable: the on_created events handled, in order
    bat_test_phase,     \* BatteryPackState.test_phase
    bat_phase_timer,    \* BatteryPackState.phase_timer, seconds
    bat_state_of_charge, \* BatteryPackState.state_of_charge, tenths of a percent
    bat_pack_current,   \* BatteryPackState.pack_current, amperes
    bat_pack_temp,      \* BatteryPackState.pack_temp, thousandths of a degree
    bat_cycle_count,    \* BatteryPackState.cycle_count
    bat_changes,        \* history variable: assignments to test_phase in the last update
    vis_pc,             \* vision simulator main(): "start" or "running"
    vis_inspection_count, \* VisionInspectionStation.inspection_count
    vis_pass_count,     \* VisionInspectionStation.pass_count
    vis_fail_count,     \* VisionInspectionStation.fail_count
    vis_current_batch,  \* VisionInspectionStation.current_batch, as the number of batches started
    vis_batch_count,    \* VisionInspectionStation.batch_count
    vis_batch_size,     \* VisionInspectionStation.batch_size
    vis_defect_counts,  \* VisionInspectionStation.defect_counts
    vis_report          \* history variable: the last report perform_inspection returned

detVars == <<window_size, threshold, rounding, history, pushed, lastCall, lastClass>>

\* the variables of the health thread of detector.py
healthVars == <<health_server, health_response>>

mainVars == <<pc, iot_client, client, nodes, idx, anomaly_count,
              anomalies_detected, cycle, outcome, reads, alerts, released,
              logged, health_server, health_response>>

\* the variables of opcua-gateway/src/gateway.py
gatewayVars == <<gw_pc, gw_iot_client, gw_nodes, gw_idx, gw_telemetry, gw_cycle,
                 gw_sends, gw_logged, gw_released>>

\* the variables of test-data-collector/src/collector.py
collectorVars == <<col_pc, col_blob_service, col_iot_client, col_processed_files,
                   col_uploads, col_sends, col_log>>

\* the variables of ev-battery-simulator/src/simulator.py
batteryVars == <<bat_test_phase, bat_phase_timer, bat_state_of_charge,
                 bat_pack_current, bat_pack_temp, bat_cycle_count, bat_changes>>

\* the variables of vision-simulator/src/simulator.py
visionVars == <<vis_pc, vis_inspection_count, vis_pass_count, vis_fail_count,
                vis_current_batch, vis_batch_count, vis_batch_size,
                vis_defect_counts, vis_report>>

\* the other containers of the fleet
fleetVars == <<collectorVars, batteryVars, visionVars>>

vars == <<window_size, threshold, rounding, history, pushed, lastCall, lastClass,
          pc, iot_client, client, nodes, idx, anomaly_count,
          anomalies_detected, cycle, outcome, reads, alerts, released,
          logged, health_server, health_response, gw_pc, gw_iot_client, gw_nodes, gw_idx, gw_telemetry,
          gw_cycle, gw_sends, gw_logged, gw_released, collectorVars, batteryVars,
          visionVars>>

(***************************************************************************)
(* Arithmetic helpers.                                                     *)
(***************************************************************************)
RECURSIVE SumSeq(_)
SumSeq(s) == IF s = <<>> THEN 0 ELSE Head(s) + SumSeq(Tail(s))

Abs(x) == IF x < 0 THEN -x ELSE x

RECURSIVE GCD(_, _)
GCD(a, b) == IF b = 0 THEN a ELSE GCD(b, a % b)

\* the rational p in lowest terms (p[2] > 0)
RatNorm(p) == LET g == GCD(Abs(p[1]), p[2]) IN <<p[1] \div g, p[2] \div g>>

\* p / q for rationals in lowest terms, q > 0, cancelling before multiplying
RatDiv(p, q) ==
    LET g1 == GCD(Abs(p[1]), q[1])
        g2 == GCD(q[2], p[2])
    IN  <<(p[1] \div g1) * (q[2] \div g2), (p[2] \div g2) * (q[1] \div g1)>>

\* p > q for rationals with positive denominators
RatGt(p, q) == p[1] * q[2] > q[1] * p[2]

\* p = q for rationals with positive denominators
RatEq(p, q) == p[1] * q[2] = q[1] * p[2]

(***************************************************************************)
(* collections.deque(maxlen = maxlen).append(x): a full deque drops its    *)
(* oldest (leftmost) element; a deque of maxlen 0 stays empty.             *)
(***************************************************************************)
DequeAppendNoEvict(d, x, maxlen) == Append(d, x)

DequeAppendDropNewest(d, x, maxlen) ==
    IF maxlen = 0 THEN <<>>
    ELSE IF Len(d) = maxlen THEN Append(SubSeq(d, 1, Len(d) - 1), x)
    ELSE Append(d, x)

DequeAppendClearWhenFull(d, x, maxlen) ==
    IF maxlen = 0 THEN <<>>
    ELSE IF Len(d) = maxlen THEN <<x>>
    ELSE Append(d, x)

DequeAppend(d, x, maxlen) ==
    IF maxlen = 0 THEN <<>>
    ELSE IF Len(d) = maxlen THEN Append(Tail(d), x)
    ELSE Append(d, x)

(***************************************************************************)
(* numpy: np.mean(values) and np.std(values) (ddof = 0).  With n values of *)
(* sum S, mean = S / n and std^2 = mean(|x - mean|^2)                      *)
(*             = (SUM (n*x - S)^2) / n^3.                                  *)
(***************************************************************************)
\* one of the values is nan
HasNan(values) == \E k \in 1..Len(values) : values[k] = NanSample

\* a sum with a nan term is nan
NpMean(values) ==
    IF HasNan(values) THEN NaN ELSE <<SumSeq(values), Len(values)>>

SqDev(values) ==
    LET n == Len(values)
        S == SumSeq(values)
    IN  SumSeq([k \in 1..n |-> (n * values[k] - S) * (n * values[k] - S)])

\* np.std squared, in lowest terms (0 / 0 for no values, as numpy's nan)
NpStdSqSample(values) ==
    LET n == Len(values)
    IN  IF n = 0 THEN NaN
        ELSE RatNorm(<<SqDev(values), n * n * (IF n > 1 THEN n - 1 ELSE 1)>>)

NpStdSq(values) ==
    LET n == Len(values)
    IN  IF n = 0 \/ HasNan(values) THEN NaN
        ELSE RatNorm(<<SqDev(values), n * n * n>>)

\* (abs(value - mean) / std)^2 in lowest terms, for std # 0
ZScoreSq(value, mean, stdSq) ==
    IF value = NanSample \/ mean = NaN \/ stdSq = NaN THEN NaN
    ELSE LET d == RatNorm(<<Abs(value * mean[2] - mean[1]), mean[2]>>)
         IN  RatDiv(<<d[1] * d[1], d[2] * d[2]>>, stdSq)

\* z_score > self.threshold
ExceedsThresholdInverted(zSq, thr) ==
    RatGt(<<thr[1] * thr[1], thr[2] * thr[2]>>, zSq)

\* not (z_score <= self.threshold)
ExceedsThresholdUnlessBelow(zSq, thr) ==
    zSq = NaN \/ RatGt(zSq, <<thr[1] * thr[1], thr[2] * thr[2]>>)

\* line 82 compares the binary64 quotient of line 81: a nan is greater than
\* nothing; when the exact quotient equals the threshold, the rounded one can
\* be the next float above it (as for the window [1.0, 0.3] and the
\* threshold 1.0)
ExceedsThreshold(zSq, thr) ==
    LET thrSq == <<thr[1] * thr[1], thr[2] * thr[2]>>
    IN  /\ zSq # NaN
        /\ RatGt(zSq, thrSq) \/ (rounding = "up" /\ RatEq(zSq, thrSq))

(***************************************************************************)
(* AnomalyDetector.add_sample(tag_name, value)                             *)
(***************************************************************************)
\* lines 66-69: create the window lazily, then append
AddToHistoryForgetOthers(h, tag_name, value, maxlen) ==
    tag_name :> DequeAppend(IF tag_name \in DOMAIN h THEN h[tag_name] ELSE <<>>,
                            value, maxlen)

AddToHistory(h, tag_name, value, maxlen) ==
    LET h1 == IF tag_name \in DOMAIN h THEN h ELSE h @@ (tag_name :> <<>>)
    IN  [h1 EXCEPT ![tag_name] = DequeAppend(@, value, maxlen)]

\* line 71: the warm-up gate
WarmupGateFull(len, ws) == len < ws

WarmupGateOne(len, ws) == len < (IF ws \div 2 < 2 THEN 2 ELSE ws \div 2)

WarmupGate(len, ws) == len < ws \div 2

\* line 74: the values the baseline is computed over; hBefore and hAfter are
\* self.history before and after line 69
BaselineValuesBefore(hBefore, hAfter, tag_name) ==
    IF tag_name \in DOMAIN hBefore THEN hBefore[tag_name] ELSE <<>>

\* the windows of the signals in S, one after another
RECURSIVE ConcatWindows(_, _)
ConcatWindows(h, S) ==
    IF S = {} THEN <<>>
    ELSE LET t == CHOOSE t \in S : TRUE
         IN  h[t] \o ConcatWindows(h, S \ {t})

BaselineValuesPooled(hBefore, hAfter, tag_name) ==
    ConcatWindows(hAfter, DOMAIN hAfter)

BaselineValues(hBefore, hAfter, tag_name) == hAfter[tag_name]

\* lines 78-84: the value returned once the gate is passed.  A division of
\* 0.0 by 0.0 gives numpy's nan, and nan > threshold is False.
EvaluateNoZeroCheck(value, values, thr) ==
    LET mean == NpMean(values)
        stdSq == NpStdSq(values)
    IN  IF stdSq[1] = 0
        THEN [is_anomaly |-> "False", z_score_sq |-> NaN, mean |-> mean,
              divided |-> TRUE]
        ELSE [is_anomaly |-> IF ExceedsThreshold(ZScoreSq(value, mean, stdSq), thr)
                             THEN "True" ELSE "False",
              z_score_sq |-> ZScoreSq(value, mean, stdSq), mean |-> mean,
              divided |-> TRUE]

\* lines 75-84; line 78: a nan is not equal to 0
Evaluate(value, values, thr) ==
    LET mean == NpMean(values)
        stdSq == NpStdSq(values)
    IN  IF stdSq # NaN /\ stdSq[1] = 0
        THEN [is_anomaly |-> "False", z_score_sq |-> <<0, 1>>, mean |-> mean,
              divided |-> FALSE]
        ELSE [is_anomaly |-> IF ExceedsThreshold(ZScoreSq(value, mean, stdSq), thr)
                             THEN "True" ELSE "False",
              z_score_sq |-> ZScoreSq(value, mean, stdSq), mean |-> mean,
              divided |-> TRUE]

\* what add_sample returns, with the values it computed the baseline over
AddSampleReturn(hBefore, tag_name, value, ws, thr) ==
    LET hAfter == AddToHistory(hBefore, tag_name, value, ws)
    IN  IF WarmupGate(Len(hAfter[tag_name]), ws)
        THEN [is_anomaly |-> "None", z_score_sq |-> None, mean |-> None,
              divided |-> FALSE, values |-> <<>>]
        ELSE LET values == BaselineValues(hBefore, hAfter, tag_name)
                 r == Evaluate(value, values, thr)
             IN  [is_anomaly |-> r.is_anomaly, z_score_sq |-> r.z_score_sq,
                  mean |-> r.mean, divided |-> r.divided, values |-> values]

\* the classification of a returned triple, in the words of the specification
Classification(ret) ==
    CASE ret.is_anomaly = "None" -> "Insufficient"
      [] ret.is_anomaly = "True" -> "Anomalous"
      [] OTHER -> "Normal"

EmptyDict == [x \in {} |-> <<>>]

NoCall == [tag |-> "", value |-> 0, ret |-> [is_anomaly |-> "None",
           z_score_sq |-> None, mean |-> None, divided |-> FALSE, values |-> <<>>],
           before |-> <<>>, made |-> FALSE]

\* lines 74-76: np.array copies the deque and np.mean and np.std read the
\* copy; this is the deque once they have returned
WindowAfterBaselineConsumed(values) == <<>>

WindowAfterBaseline(values) == values

\* self.history when add_sample returns
HistoryAfterCall(h, tag_name, value, ws) ==
    LET hAfter == AddToHistory(h, tag_name, value, ws)
    IN  IF WarmupGate(Len(hAfter[tag_name]), ws)
        THEN hAfter
        ELSE [hAfter EXCEPT ![tag_name] = WindowAfterBaseline(@)]

\* the effect of one add_sample call on the detector and its history variables
add_sample(tag_name, value) ==
    /\ history' = HistoryAfterCall(history, tag_name, value, window_size)
    /\ pushed' = IF tag_name \in DOMAIN pushed
                 THEN [pushed EXCEPT ![tag_name] = Append(@, value)]
                 ELSE pushed @@ (tag_name :> <<value>>)
    /\ lastCall' = [tag |-> tag_name, value |-> value,
                    ret |-> AddSampleReturn(history, tag_name, value,
                                            window_size, threshold),
                    before |-> IF tag_name \in DOMAIN history
                               THEN history[tag_name] ELSE <<>>,
                    made |-> TRUE]
    /\ lastClass' =
          LET c == Classification(AddSampleReturn(history, tag_name, value,
                                                  window_size, threshold))
          IN  IF tag_name \in DOMAIN lastClass
              THEN [lastClass EXCEPT ![tag_name] = c]
              ELSE lastClass @@ (tag_name :> c)
    /\ UNCHANGED <<window_size, threshold, rounding>>

TotalPushed == SumSeq([k \in 1..Len(MONITORED_TAGS) |->
                   IF MONITORED_TAGS[k] \in DOMAIN pushed
                   THEN Len(pushed[MONITORED_TAGS[k]]) ELSE 0])

(***************************************************************************)
(* The detector on its own: AnomalyDetector(window_size, threshold) is     *)
(* constructed and a client calls add_sample with any signal and value.    *)
(***************************************************************************)
\* AnomalyDetector.__init__, lines 60-63
ConstructWith(sizes, thresholds, roundings) ==
    /\ window_size \in sizes
    /\ threshold \in thresholds
    /\ rounding \in roundings
    /\ history = EmptyDict
    /\ pushed = EmptyDict
    /\ lastCall = NoCall
    /\ lastClass = EmptyDict

\* a detector whose arithmetic is read exactly
Construct(sizes, thresholds) == ConstructWith(sizes, thresholds, {"exact"})

\* main() before its first statement
InitMain ==
    /\ pc = "start"
    /\ iot_client = "None"
    /\ client = "new"
    /\ nodes = <<>>
    /\ idx = 1
    /\ anomaly_count = 0
    /\ anomalies_detected = <<>>
    /\ cycle = 0
    /\ outcome = [k \in 1..Len(MONITORED_TAGS) |-> "Pending"]
    /\ reads = 0
    /\ alerts = <<>>
    /\ released = {}
    /\ logged = {}
    /\ health_server = "not started"
    /\ health_response = "none"

\* gateway.py main() before its first statement
InitGateway ==
    /\ gw_pc = "start"
    /\ gw_iot_client = "None"
    /\ gw_nodes = <<>>
    /\ gw_idx = 1
    /\ gw_telemetry = EmptyDict
    /\ gw_cycle = 0
    /\ gw_sends = <<>>
    /\ gw_logged = {}
    /\ gw_released = {}

\* collector.py main() before its first statement
InitCollector ==
    /\ col_pc = "start"
    /\ col_blob_service = "None"
    /\ col_iot_client = "None"
    /\ col_processed_files = {}
    /\ col_uploads = <<>>
    /\ col_sends = <<>>
    /\ col_log = <<>>

\* BatteryPackState.__init__, lines 67-86 of ev-battery-simulator/src/simulator.py
InitBattery ==
    /\ bat_test_phase = "IDLE"
    /\ bat_phase_timer = 0
    /\ bat_state_of_charge = 1000
    /\ bat_pack_current = 0
    /\ bat_pack_temp = 25000
    /\ bat_cycle_count = 0
    /\ bat_changes = 0

\* the defect types of lines 66-72 of vision-simulator/src/simulator.py
DEFECT_TYPES == <<"Scratch", "Dent", "Discoloration", "Contamination", "Dimensional">>

\* no report yet
NoReport == [made |-> FALSE, result |-> "", defectType |-> "", batchId |-> 0,
             totalInspections |-> 0, totalPass |-> 0, totalFail |-> 0,
             defectDistribution |-> [k \in 1..Len(DEFECT_TYPES) |-> 0]]

\* vision simulator main() before line 189: no station yet
InitVision ==
    /\ vis_pc = "start"
    /\ vis_inspection_count = 0
    /\ vis_pass_count = 0
    /\ vis_fail_count = 0
    /\ vis_current_batch = 0
    /\ vis_batch_count = 0
    /\ vis_batch_size = 0
    /\ vis_defect_counts = [k \in 1..Len(DEFECT_TYPES) |-> 0]
    /\ vis_report = NoReport

InitFleet == InitCollector /\ InitBattery /\ InitVision

\* a detector of any window size up to MaxWindow, main() not running
InitDetector == Construct(1..MaxWindow, Thresholds) /\ InitMain /\ InitGateway /\ InitFleet

\* main() with WINDOW_SIZE and ANOMALY_THRESHOLD as the environment sets them
Init == Construct(MainWindowSizes, MainThresholds) /\ InitMain /\ InitGateway /\ InitFleet

AddSampleCall ==
    /\ TotalPushed < MaxSamples
    /\ \E tag_name \in Signals, value \in SampleValues : add_sample(tag_name, value)
    /\ UNCHANGED <<mainVars, gatewayVars, fleetVars>>

NextDetector == AddSampleCall

SpecDetector == InitDetector /\ [][NextDetector]_vars

(***************************************************************************)
(* The detector on its own, with thresholds at and above the largest       *)
(* z-score a window can produce, and with the quotient of line 81 rounded  *)
(* either way.                                                             *)
(***************************************************************************)
RoundingWindowSizes == {2, 3}

RoundingThresholds == {<<1, 1>>, <<3, 2>>}

\* how line 81 rounds
Roundings == {"exact", "up"}

InitRounding ==
    /\ ConstructWith(RoundingWindowSizes, RoundingThresholds, Roundings)
    /\ InitMain
    /\ InitGateway
    /\ InitFleet

SpecRounding == InitRounding /\ [][NextDetector]_vars

(***************************************************************************)
(* The detector on its own, one signal, with nan among the samples.        *)
(***************************************************************************)
MaxNanSamples == 7

NanWindowSizes == {2, 4}

NanSampleValues == {0, 1, NanSample}

InitNan == Construct(NanWindowSizes, MainThresholds) /\ InitMain /\ InitGateway /\ InitFleet

AddSampleOrNan ==
    /\ TotalPushed < MaxNanSamples
    /\ \E value \in NanSampleValues : add_sample("Vibration", value)
    /\ UNCHANGED <<mainVars, gatewayVars, fleetVars>>

SpecNan == InitNan /\ [][AddSampleOrNan]_vars

(***************************************************************************)
(* The detector with the default settings of lines 16-17, one signal       *)
(* primed with a ramp and then given an outlier, another signal given a    *)
(* constant value, the two fed in any interleaving.                        *)
(***************************************************************************)
\* int(os.getenv("WINDOW_SIZE", "20"))
DEFAULT_WINDOW_SIZE == 20

\* float(os.getenv("ANOMALY_THRESHOLD", "2.5"))
DEFAULT_ANOMALY_THRESHOLD == <<5, 2>>

InitScenario ==
    /\ Construct({DEFAULT_WINDOW_SIZE}, {DEFAULT_ANOMALY_THRESHOLD})
    /\ InitMain
    /\ InitGateway
    /\ InitFleet

\* the number of samples added so far for a signal
SamplesOf(t) == IF t \in DOMAIN pushed THEN Len(pushed[t]) ELSE 0

\* add_sample("Vibration", v) with v = 70, 71, ..., 89 and then 200
FeedRamp ==
    /\ SamplesOf("Vibration") <= 20
    /\ add_sample("Vibration", IF SamplesOf("Vibration") < 20
                               THEN 70 + SamplesOf("Vibration") ELSE 200)
    /\ UNCHANGED <<mainVars, gatewayVars, fleetVars>>

\* add_sample("Temperature", 72), ten times
FeedFlat ==
    /\ SamplesOf("Temperature") < 10
    /\ add_sample("Temperature", 72)
    /\ UNCHANGED <<mainVars, gatewayVars, fleetVars>>

NextScenario == FeedRamp \/ FeedFlat

SpecScenario == InitScenario /\ [][NextScenario]_vars

(***************************************************************************)
(* main(): start-up.                                                       *)
(***************************************************************************)
\* line 106, IOT_HUB_CONNECTION_STRING empty: alerts are only logged
NoConnectionString ==
    /\ pc = "start"
    /\ iot_client' = "None"
    /\ logged' = logged \cup {"No IoT Hub connection string"}
    /\ pc' = "opc_connect"
    /\ UNCHANGED <<fleetVars, gatewayVars, healthVars, detVars, client, nodes, idx, anomaly_count,
                   anomalies_detected, cycle, outcome, reads, alerts, released>>

\* lines 103-104: where main() goes on after the handler of a failed
\* create_from_connection_string or connect: line 108
PcAfterIotErrorFatal == "fatal"

PcAfterIotError == "opc_connect"

\* line 100 raises: iot_client is still None, logged at line 104
IotCreateFails ==
    /\ pc = "start"
    /\ iot_client' = "None"
    /\ logged' = logged \cup {"Failed to connect to IoT Hub"}
    /\ pc' = PcAfterIotError
    /\ UNCHANGED <<fleetVars, gatewayVars, healthVars, detVars, client, nodes, idx, anomaly_count,
                   anomalies_detected, cycle, outcome, reads, alerts, released>>

\* line 101 raises: iot_client is the client created at line 100, logged at
\* line 104
IotConnectFails ==
    /\ pc = "start"
    /\ iot_client' = "unconnected"
    /\ logged' = logged \cup {"Failed to connect to IoT Hub"}
    /\ pc' = PcAfterIotError
    /\ UNCHANGED <<fleetVars, gatewayVars, healthVars, detVars, client, nodes, idx, anomaly_count,
                   anomalies_detected, cycle, outcome, reads, alerts, released>>

IotConnectOk ==
    /\ pc = "start"
    /\ iot_client' = "connected"
    /\ pc' = "opc_connect"
    /\ UNCHANGED <<fleetVars, gatewayVars, healthVars, detVars, client, nodes, idx, anomaly_count,
                   anomalies_detected, cycle, outcome, reads, alerts, released,
                   logged>>

\* line 111 returns
OpcConnectOk ==
    /\ pc = "opc_connect"
    /\ client' = "connected"
    /\ nodes' = <<>>
    /\ idx' = 1
    /\ pc' = "get_nodes"
    /\ UNCHANGED <<fleetVars, gatewayVars, healthVars, detVars, iot_client, anomaly_count, anomalies_detected,
                   cycle, outcome, reads, alerts, released, logged>>

\* where main() goes on when client.connect() of line 111 raises: the
\* statement is inside the try of line 110 and under no inner try
PcAfterOpcConnectErrorSwallowed == "get_nodes"

PcAfterOpcConnectError == "fatal"

\* line 111 raises: caught at line 179
OpcConnectFails ==
    /\ pc = "opc_connect"
    /\ client' = "failed"
    /\ pc' = PcAfterOpcConnectError
    /\ UNCHANGED <<fleetVars, gatewayVars, healthVars, detVars, iot_client, nodes, idx, anomaly_count,
                   anomalies_detected, cycle, outcome, reads, alerts, released,
                   logged>>

\* lines 115-123: after the last tag, anomaly_count = 0 and the loop is entered
AfterGetNode ==
    /\ idx' = idx + 1
    /\ IF idx = Len(MONITORED_TAGS)
       THEN anomaly_count' = 0 /\ pc' = "loop_top"
       ELSE UNCHANGED <<anomaly_count, pc>>

GetNodeOk ==
    /\ pc = "get_nodes"
    /\ idx <= Len(MONITORED_TAGS)
    /\ nodes' = Append(nodes, MONITORED_TAGS[idx])
    /\ AfterGetNode
    /\ UNCHANGED <<fleetVars, gatewayVars, healthVars, detVars, iot_client, client, anomalies_detected, cycle,
                   outcome, reads, alerts, released, logged>>

\* line 121: the message logged for the tag whose lookup raised
FailedToGetNode(tag_name) ==
    CASE tag_name = "Vibration" -> "Failed to get node Vibration"
      [] tag_name = "Temperature" -> "Failed to get node Temperature"
      [] tag_name = "Pressure" -> "Failed to get node Pressure"

\* lines 117-121: the list of nodes after get_node raised for tag_name; line
\* 118 is skipped
NodesAfterLookupErrorKept(ns, tag_name) == Append(ns, tag_name)

NodesAfterLookupError(ns, tag_name) == ns

\* line 117 raises: logged at line 121
GetNodeFails ==
    /\ pc = "get_nodes"
    /\ idx <= Len(MONITORED_TAGS)
    /\ nodes' = NodesAfterLookupError(nodes, MONITORED_TAGS[idx])
    /\ logged' = logged \cup {FailedToGetNode(MONITORED_TAGS[idx])}
    /\ AfterGetNode
    /\ UNCHANGED <<fleetVars, gatewayVars, healthVars, detVars, iot_client, client, anomalies_detected, cycle,
                   outcome, reads, alerts, released>>

(***************************************************************************)
(* main(): one polling cycle, lines 125-177.                               *)
(***************************************************************************)
\* line 127: the batch a cycle starts with; prev is the batch of the cycle before
BatchCarriedOver(prev) == prev

\* the batch kept for another attempt when its delivery failed
BatchRequeued(prev) ==
    IF alerts # <<>> /\ ~alerts[Len(alerts)].delivered
          /\ alerts[Len(alerts)].payload.timestamp = cycle
    THEN prev ELSE <<>>

BatchAtCycleStart(prev) == <<>>

\* lines 126-127
BeginCycle ==
    /\ pc = "loop_top"
    /\ cycle < MaxCycles
    /\ cycle' = cycle + 1
    /\ anomalies_detected' = BatchAtCycleStart(anomalies_detected)
    /\ outcome' = [k \in 1..Len(MONITORED_TAGS) |-> "Pending"]
    /\ idx' = 1
    /\ pc' = "poll"
    /\ UNCHANGED <<fleetVars, gatewayVars, healthVars, detVars, iot_client, client, nodes, anomaly_count, reads,
                   alerts, released, logged>>

\* the position in MONITORED_TAGS of a display name
TagIndex(tag_name) == CHOOSE k \in 1..Len(MONITORED_TAGS) : MONITORED_TAGS[k] = tag_name

\* floor(sqrt(r)) for a rational r >= 0
FloorSqrt(r) ==
    CHOOSE m \in 0..(r[1] + 1) :
        /\ m * m * r[2] <= r[1]
        /\ (m + 1) * (m + 1) * r[2] > r[1]

\* round(x, digits) with k = 10^digits, for a rational x >= 0: the nearest
\* multiple of 1 / k, a tie going to the even one
Round(x, k) ==
    LET twice == (2 * k * x[1]) \div x[2]
        exact == (2 * k * x[1]) % x[2] = 0
        up == (twice + 1) \div 2
    IN  IF exact /\ twice % 2 = 1 /\ up % 2 = 1 THEN <<up - 1, k>> ELSE <<up, k>>

\* round(sqrt(xSq), digits) with k = 10^digits, for a rational xSq >= 0
RoundSqrt(xSq, k) ==
    LET scaled == RatNorm(<<4 * k * k * xSq[1], xSq[2]>>)
        twice == FloorSqrt(scaled)
        exact == twice * twice * scaled[2] = scaled[1]
        up == (twice + 1) \div 2
    IN  IF exact /\ twice % 2 = 1 /\ up % 2 = 1 THEN <<up - 1, k>> ELSE <<up, k>>

\* lines 141-147
AnomalyInfo(tag_name, value, ret) ==
    [tag |-> tag_name,
     value |-> Round(<<value, 1>>, 1000),
     baseline |-> Round(ret.mean, 1000),
     deviation |-> RoundSqrt(ret.z_score_sq, 100),
     threshold |-> threshold]

\* lines 155-156: the position the for loop goes on with after the handler
\* of a failed read at position i of n
IndexAfterFetchErrorAbort(i, n) == n + 1

IndexAfterFetchError(i, n) == i + 1

\* line 140: anomaly_count += 1
CountAfterAnomalyStale(count) == count

CountAfterAnomaly(count) == count + 1

\* lines 133-134: the windows after get_value raised for tag_name; line 134
\* is skipped, add_sample is not called
HistoryAfterFetchErrorPushesZero(h, tag_name) ==
    AddToHistory(h, tag_name, 0, window_size)

HistoryAfterFetchError(h, tag_name) == h

\* line 133 raises: logged at line 156, the for loop goes on
PollFetchFails ==
    /\ pc = "poll"
    /\ idx <= Len(nodes)
    /\ reads < MaxReads
    /\ reads' = reads + 1
    /\ history' = HistoryAfterFetchError(history, nodes[idx])
    /\ outcome' = [outcome EXCEPT ![TagIndex(nodes[idx])] = "Failed"]
    /\ idx' = IndexAfterFetchError(idx, Len(nodes))
    /\ logged' = logged \cup {"Error reading"}
    /\ UNCHANGED <<fleetVars, gatewayVars, healthVars, window_size, threshold, rounding, pushed, lastCall,
                   lastClass, pc, iot_client, client, nodes, anomaly_count,
                   anomalies_detected, cycle, alerts, released>>

\* lines 133-153: the read returns value
PollFetchOk ==
    /\ pc = "poll"
    /\ idx <= Len(nodes)
    /\ reads < MaxReads
    /\ reads' = reads + 1
    /\ \E value \in ReadValues :
          LET tag_name == nodes[idx]
              ret == AddSampleReturn(history, tag_name, value, window_size,
                                     threshold)
          IN  /\ add_sample(tag_name, value)
              /\ IF ret.is_anomaly = "None"
                 THEN UNCHANGED <<anomaly_count, anomalies_detected>>
                 ELSE IF ret.is_anomaly = "True"
                 THEN /\ anomaly_count' = CountAfterAnomaly(anomaly_count)
                      /\ anomalies_detected' =
                            Append(anomalies_detected,
                                   AnomalyInfo(tag_name, value, ret))
                 ELSE UNCHANGED <<anomaly_count, anomalies_detected>>
              /\ outcome' = [outcome EXCEPT ![TagIndex(tag_name)] =
                                Classification(ret)]
    /\ idx' = idx + 1
    /\ UNCHANGED <<fleetVars, gatewayVars, healthVars, pc, iot_client, client, nodes, cycle, alerts,
                   released, logged>>

\* the for loop of line 131 is over
ForLoopDoneEarly == pc = "poll" /\ idx > 1

ForLoopDone == pc = "poll" /\ idx > Len(nodes)

\* line 158: is the batch sent
ShouldSendWhenConnected(batch, iot) == batch # <<>> /\ iot = "connected"

ShouldSend(batch, iot) == batch # <<>> /\ iot # "None"

\* line 167
SeverityAboveTwo(n) == IF n <= 2 THEN "warning" ELSE "critical"

Severity(n) == IF n < 2 THEN "warning" ELSE "critical"

\* line 165: anomaly_count is never reset after line 123
TotalAnomaliesOfCycle(count, batch) == Len(batch)

TotalAnomaliesDelivered(count, batch) ==
    SumSeq([i \in 1..Len(alerts) |->
               IF alerts[i].delivered THEN alerts[i].payload.anomalyCount
               ELSE 0]) + Len(batch)

TotalAnomalies(count, batch) == count

\* lines 160-168
Alert ==
    [messageType |-> "anomalyAlert",
     deviceId |-> "DEVICE_ID",
     timestamp |-> cycle,
     anomalyCount |-> Len(anomalies_detected),
     totalAnomalies |-> TotalAnomalies(anomaly_count, anomalies_detected),
     anomalies |-> anomalies_detected,
     severity |-> Severity(Len(anomalies_detected))]

\* line 158 is false: nothing to send, or nobody to send it to
NoAlert ==
    /\ ForLoopDone
    /\ ~ShouldSend(anomalies_detected, iot_client)
    /\ pc' = "sleep"
    /\ UNCHANGED <<fleetVars, gatewayVars, healthVars, detVars, iot_client, client, nodes, idx, anomaly_count,
                   anomalies_detected, cycle, outcome, reads, alerts, released,
                   logged>>

\* lines 159-173: send_message returns
SendAlertOk ==
    /\ ForLoopDone
    /\ ShouldSend(anomalies_detected, iot_client)
    /\ alerts' = Append(alerts, [payload |-> Alert, delivered |-> TRUE])
    /\ pc' = "sleep"
    /\ UNCHANGED <<fleetVars, gatewayVars, healthVars, detVars, iot_client, client, nodes, idx, anomaly_count,
                   anomalies_detected, cycle, outcome, reads, released, logged>>

\* where main() goes on when send_message of line 172 raises: the handler of
\* line 174 is inside the while loop, line 177 follows it
PcAfterSendErrorEscapes == "fatal"

PcAfterSendError == "sleep"

\* lines 159-175: send_message raises, logged at line 175
SendAlertFails ==
    /\ ForLoopDone
    /\ ShouldSend(anomalies_detected, iot_client)
    /\ alerts' = Append(alerts, [payload |-> Alert, delivered |-> FALSE])
    /\ logged' = logged \cup {"Failed to send alert"}
    /\ pc' = PcAfterSendError
    /\ UNCHANGED <<fleetVars, gatewayVars, healthVars, detVars, iot_client, client, nodes, idx, anomaly_count,
                   anomalies_detected, cycle, outcome, reads, released>>

\* lines 125 and 177: where main() goes on after time.sleep
PcAfterSleepBreak == "finally_client"

PcAfterSleep == "loop_top"

\* line 177
Sleep ==
    /\ pc = "sleep"
    /\ pc' = PcAfterSleep
    /\ UNCHANGED <<fleetVars, gatewayVars, healthVars, detVars, iot_client, client, nodes, idx, anomaly_count,
                   anomalies_detected, cycle, outcome, reads, alerts, released,
                   logged>>

(***************************************************************************)
(* main(): the handler of line 179 and the finally block, lines 181-190.   *)
(***************************************************************************)
\* line 180
LogFatal ==
    /\ pc = "fatal"
    /\ logged' = logged \cup {"Fatal Error"}
    /\ pc' = "finally_client"
    /\ UNCHANGED <<fleetVars, gatewayVars, healthVars, detVars, iot_client, client, nodes, idx, anomaly_count,
                   anomalies_detected, cycle, outcome, reads, alerts, released>>

\* lines 182-183: client.disconnect() returns
DisconnectClientOk ==
    /\ pc = "finally_client"
    /\ released' = released \cup {<<"client", "returned">>}
    /\ pc' = "finally_iot"
    /\ UNCHANGED <<fleetVars, gatewayVars, healthVars, detVars, iot_client, client, nodes, idx, anomaly_count,
                   anomalies_detected, cycle, outcome, reads, alerts, logged>>

\* where main() goes on when client.disconnect() of line 183 raises: the
\* except of line 184 swallows it, line 186 follows
PcAfterClientDisconnectErrorEscapes == "exit"

PcAfterClientDisconnectError == "finally_iot"

\* lines 182-185: client.disconnect() raises
DisconnectClientRaises ==
    /\ pc = "finally_client"
    /\ released' = released \cup {<<"client", "raised">>}
    /\ pc' = PcAfterClientDisconnectError
    /\ UNCHANGED <<fleetVars, gatewayVars, healthVars, detVars, iot_client, client, nodes, idx, anomaly_count,
                   anomalies_detected, cycle, outcome, reads, alerts, logged>>

\* lines 186-188: iot_client.disconnect() returns
DisconnectIotOk ==
    /\ pc = "finally_iot"
    /\ iot_client # "None"
    /\ released' = released \cup {<<"iot_client", "returned">>}
    /\ pc' = "exit"
    /\ UNCHANGED <<fleetVars, gatewayVars, healthVars, detVars, iot_client, client, nodes, idx, anomaly_count,
                   anomalies_detected, cycle, outcome, reads, alerts, logged>>

\* lines 186-190: iot_client.disconnect() raises, swallowed at line 189
DisconnectIotRaises ==
    /\ pc = "finally_iot"
    /\ iot_client # "None"
    /\ released' = released \cup {<<"iot_client", "raised">>}
    /\ pc' = "exit"
    /\ UNCHANGED <<fleetVars, gatewayVars, healthVars, detVars, iot_client, client, nodes, idx, anomaly_count,
                   anomalies_detected, cycle, outcome, reads, alerts, logged>>

\* line 186 is false
NoIotToDisconnect ==
    /\ pc = "finally_iot"
    /\ iot_client = "None"
    /\ pc' = "exit"
    /\ UNCHANGED <<fleetVars, gatewayVars, healthVars, detVars, iot_client, client, nodes, idx, anomaly_count,
                   anomalies_detected, cycle, outcome, reads, alerts, released,
                   logged>>

Next ==
    \/ NoConnectionString
    \/ IotCreateFails
    \/ IotConnectFails
    \/ IotConnectOk
    \/ OpcConnectOk
    \/ OpcConnectFails
    \/ GetNodeOk
    \/ GetNodeFails
    \/ BeginCycle
    \/ PollFetchFails
    \/ PollFetchOk
    \/ NoAlert
    \/ SendAlertOk
    \/ SendAlertFails
    \/ Sleep
    \/ LogFatal
    \/ DisconnectClientOk
    \/ DisconnectClientRaises
    \/ DisconnectIotOk
    \/ DisconnectIotRaises
    \/ NoIotToDisconnect

Spec == Init /\ [][Next]_vars

(***************************************************************************)
(* detector.py: the health thread started at line 87, lines 38-57, running *)
(* beside main().  It is a daemon thread: it ends with the process.        *)
(***************************************************************************)
\* the paths of the GET requests that reach the health server
HealthPaths == {"/health", "/metrics"}

\* the thread started at line 87 exists and the process has not ended
HealthThreadAlive == pc \notin {"start", "exit"}

\* lines 53-55: the server is bound and serves
HealthServerStarts ==
    /\ HealthThreadAlive
    /\ health_server = "not started"
    /\ health_server' = "listening"
    /\ UNCHANGED <<fleetVars, gatewayVars, detVars, pc, iot_client, client, nodes, idx,
                   anomaly_count, anomalies_detected, cycle, outcome, reads,
                   alerts, released, logged, health_response>>

\* line 53 raises: logged at line 57, the thread ends
HealthServerFails ==
    /\ HealthThreadAlive
    /\ health_server = "not started"
    /\ health_server' = "failed"
    /\ logged' = logged \cup {"Failed to start health server"}
    /\ UNCHANGED <<fleetVars, gatewayVars, detVars, pc, iot_client, client, nodes, idx,
                   anomaly_count, anomalies_detected, cycle, outcome, reads,
                   alerts, released, health_response>>

\* lines 39-46: self.history of the detector once do_GET has returned; the
\* handler names neither the detector nor anomaly_count
HistoryAfterHealthGetReset(h) == EmptyDict

HistoryAfterHealthGet(h) == h

\* HealthHandler.do_GET, lines 39-46
HealthGet ==
    /\ HealthThreadAlive
    /\ health_server = "listening"
    /\ \E path \in HealthPaths :
          health_response' = IF path = "/health" THEN "200" ELSE "404"
    /\ history' = HistoryAfterHealthGet(history)
    /\ UNCHANGED <<fleetVars, gatewayVars, window_size, threshold, rounding, pushed, lastCall,
                   lastClass, pc, iot_client, client, nodes, idx, anomaly_count,
                   anomalies_detected, cycle, outcome, reads, alerts, released,
                   logged, health_server>>

\* the main thread and the health thread, interleaved
NextThreads ==
    \/ Next
    \/ HealthServerStarts
    \/ HealthServerFails
    \/ HealthGet

\* the WINDOW_SIZE main() is run with in SpecThreads and SpecFair
ThreadsWindowSizes == {2}

InitThreads == Construct(ThreadsWindowSizes, MainThresholds) /\ InitMain /\ InitGateway /\ InitFleet

SpecThreads == InitThreads /\ [][NextThreads]_vars

(***************************************************************************)
(* docker/opcua-gateway/src/gateway.py: main(), the telemetry gateway.     *)
(* Every cycle it reads the nodes of TAGS and publishes one message.       *)
(***************************************************************************)
\* publish cycles of the gateway in SpecGateway
GwMaxCycles == 2

\* the values node.read_value() may return
GwReadValues == {0, 1}

\* TAGS, lines 16-24, each path as its components between the "/"
TAGS == << <<"ns=2;s=ProductionLine", "CycleCount">>,
           <<"ns=2;s=ProductionLine", "PartsGood">>,
           <<"ns=2;s=ProductionLine", "PartsBad">>,
           <<"ns=2;s=ProductionLine", "Temperature">>,
           <<"ns=2;s=ProductionLine", "Pressure">>,
           <<"ns=2;s=ProductionLine", "Vibration">>,
           <<"ns=2;s=ProductionLine", "MachineState">> >>

\* line 100: tag_path.split("/")[-1]
GwTagName(tag_path) == tag_path[Len(tag_path)]

\* line 73, IOT_HUB_CONNECTION_STRING empty
GwNoConnectionString ==
    /\ gw_pc = "start"
    /\ gw_iot_client' = "None"
    /\ gw_logged' = gw_logged \cup {"No IoT Hub connection string"}
    /\ gw_pc' = "opc_connect"
    /\ UNCHANGED <<fleetVars, detVars, mainVars, gw_nodes, gw_idx, gw_telemetry, gw_cycle,
                   gw_sends, gw_released>>

\* lines 69-71 return
GwIotConnectOk ==
    /\ gw_pc = "start"
    /\ gw_iot_client' = "connected"
    /\ gw_pc' = "opc_connect"
    /\ UNCHANGED <<fleetVars, detVars, mainVars, gw_nodes, gw_idx, gw_telemetry, gw_cycle,
                   gw_sends, gw_logged, gw_released>>

\* line 69 or line 70 raises: the statements are under no try, main() ends
\* with the exception
GwIotConnectFails ==
    /\ gw_pc = "start"
    /\ gw_pc' = "raised"
    /\ UNCHANGED <<fleetVars, detVars, mainVars, gw_iot_client, gw_nodes, gw_idx,
                   gw_telemetry, gw_cycle, gw_sends, gw_logged, gw_released>>

\* line 78 returns
GwOpcConnectOk ==
    /\ gw_pc = "opc_connect"
    /\ gw_nodes' = <<>>
    /\ gw_idx' = 1
    /\ gw_pc' = "get_nodes"
    /\ UNCHANGED <<fleetVars, detVars, mainVars, gw_iot_client, gw_telemetry, gw_cycle,
                   gw_sends, gw_logged, gw_released>>

\* line 78 raises: caught at line 116
GwOpcConnectFails ==
    /\ gw_pc = "opc_connect"
    /\ gw_pc' = "fatal"
    /\ UNCHANGED <<fleetVars, detVars, mainVars, gw_iot_client, gw_nodes, gw_idx,
                   gw_telemetry, gw_cycle, gw_sends, gw_logged, gw_released>>

\* lines 82-90: after the last tag the loop is entered
GwAfterGetNode ==
    /\ gw_idx' = gw_idx + 1
    /\ gw_pc' = IF gw_idx = Len(TAGS) THEN "loop_top" ELSE gw_pc

GwGetNodeOk ==
    /\ gw_pc = "get_nodes"
    /\ gw_idx <= Len(TAGS)
    /\ gw_nodes' = Append(gw_nodes, TAGS[gw_idx])
    /\ GwAfterGetNode
    /\ UNCHANGED <<fleetVars, detVars, mainVars, gw_iot_client, gw_telemetry, gw_cycle,
                   gw_sends, gw_logged, gw_released>>

\* line 84 raises: logged at line 88
GwGetNodeFails ==
    /\ gw_pc = "get_nodes"
    /\ gw_idx <= Len(TAGS)
    /\ gw_logged' = gw_logged \cup {"Failed to subscribe"}
    /\ GwAfterGetNode
    /\ UNCHANGED <<fleetVars, detVars, mainVars, gw_iot_client, gw_nodes, gw_telemetry,
                   gw_cycle, gw_sends, gw_released>>

\* lines 91-95: a new telemetry message with no tags
GwBeginCycle ==
    /\ gw_pc = "loop_top"
    /\ gw_cycle < GwMaxCycles
    /\ gw_cycle' = gw_cycle + 1
    /\ gw_telemetry' = EmptyDict
    /\ gw_idx' = 1
    /\ gw_pc' = "read"
    /\ UNCHANGED <<fleetVars, detVars, mainVars, gw_iot_client, gw_nodes, gw_sends,
                   gw_logged, gw_released>>

\* lines 99-101: read_value returns value
GwReadOk ==
    /\ gw_pc = "read"
    /\ gw_idx <= Len(gw_nodes)
    /\ \E value \in GwReadValues :
          LET tag_name == GwTagName(gw_nodes[gw_idx])
          IN  gw_telemetry' =
                 IF tag_name \in DOMAIN gw_telemetry
                 THEN [gw_telemetry EXCEPT ![tag_name] = value]
                 ELSE gw_telemetry @@ (tag_name :> value)
    /\ gw_idx' = gw_idx + 1
    /\ UNCHANGED <<fleetVars, detVars, mainVars, gw_pc, gw_iot_client, gw_nodes, gw_cycle,
                   gw_sends, gw_logged, gw_released>>

\* line 99 raises: logged at line 103, the for loop goes on
GwReadFails ==
    /\ gw_pc = "read"
    /\ gw_idx <= Len(gw_nodes)
    /\ gw_logged' = gw_logged \cup {"Error reading"}
    /\ gw_idx' = gw_idx + 1
    /\ UNCHANGED <<fleetVars, detVars, mainVars, gw_pc, gw_iot_client, gw_nodes,
                   gw_telemetry, gw_cycle, gw_sends, gw_released>>

\* the for loop of line 97 is over
GwForLoopDone == gw_pc = "read" /\ gw_idx > Len(gw_nodes)

\* line 107 is false
GwNoSend ==
    /\ GwForLoopDone
    /\ gw_iot_client = "None"
    /\ gw_pc' = "sleep"
    /\ UNCHANGED <<fleetVars, detVars, mainVars, gw_iot_client, gw_nodes, gw_idx,
                   gw_telemetry, gw_cycle, gw_sends, gw_logged, gw_released>>

\* lines 108-112: send_message returns
GwSendOk ==
    /\ GwForLoopDone
    /\ gw_iot_client # "None"
    /\ gw_sends' = Append(gw_sends, [timestamp |-> gw_cycle, delivered |-> TRUE])
    /\ gw_pc' = "sleep"
    /\ UNCHANGED <<fleetVars, detVars, mainVars, gw_iot_client, gw_nodes, gw_idx,
                   gw_telemetry, gw_cycle, gw_logged, gw_released>>

\* line 111 raises: the statement is under no try but that of line 77, the
\* exception leaves the while loop for the handler of line 116
GwSendFails ==
    /\ GwForLoopDone
    /\ gw_iot_client # "None"
    /\ gw_sends' = Append(gw_sends, [timestamp |-> gw_cycle, delivered |-> FALSE])
    /\ gw_pc' = "fatal"
    /\ UNCHANGED <<fleetVars, detVars, mainVars, gw_iot_client, gw_nodes, gw_idx,
                   gw_telemetry, gw_cycle, gw_logged, gw_released>>

\* line 114
GwSleep ==
    /\ gw_pc = "sleep"
    /\ gw_pc' = "loop_top"
    /\ UNCHANGED <<fleetVars, detVars, mainVars, gw_iot_client, gw_nodes, gw_idx,
                   gw_telemetry, gw_cycle, gw_sends, gw_logged, gw_released>>

\* line 117
GwLogFatal ==
    /\ gw_pc = "fatal"
    /\ gw_logged' = gw_logged \cup {"Fatal Error"}
    /\ gw_pc' = "finally_opcua"
    /\ UNCHANGED <<fleetVars, detVars, mainVars, gw_iot_client, gw_nodes, gw_idx,
                   gw_telemetry, gw_cycle, gw_sends, gw_released>>

\* lines 119-122: opcua_client.disconnect() returns, or raises and is swallowed
GwDisconnectOpcua ==
    /\ gw_pc = "finally_opcua"
    /\ \E how \in {"returned", "raised"} :
          gw_released' = gw_released \cup {<<"opcua_client", how>>}
    /\ gw_pc' = "finally_iot"
    /\ UNCHANGED <<fleetVars, detVars, mainVars, gw_iot_client, gw_nodes, gw_idx,
                   gw_telemetry, gw_cycle, gw_sends, gw_logged>>

\* lines 123-127: iot_client.disconnect() returns, or raises and is swallowed
GwDisconnectIot ==
    /\ gw_pc = "finally_iot"
    /\ gw_iot_client # "None"
    /\ \E how \in {"returned", "raised"} :
          gw_released' = gw_released \cup {<<"iot_client", how>>}
    /\ gw_pc' = "exit"
    /\ UNCHANGED <<fleetVars, detVars, mainVars, gw_iot_client, gw_nodes, gw_idx,
                   gw_telemetry, gw_cycle, gw_sends, gw_logged>>

\* line 123 is false
GwNoIotToDisconnect ==
    /\ gw_pc = "finally_iot"
    /\ gw_iot_client = "None"
    /\ gw_pc' = "exit"
    /\ UNCHANGED <<fleetVars, detVars, mainVars, gw_iot_client, gw_nodes, gw_idx,
                   gw_telemetry, gw_cycle, gw_sends, gw_logged, gw_released>>

NextGateway ==
    \/ GwNoConnectionString
    \/ GwIotConnectOk
    \/ GwIotConnectFails
    \/ GwOpcConnectOk
    \/ GwOpcConnectFails
    \/ GwGetNodeOk
    \/ GwGetNodeFails
    \/ GwBeginCycle
    \/ GwReadOk
    \/ GwReadFails
    \/ GwNoSend
    \/ GwSendOk
    \/ GwSendFails
    \/ GwSleep
    \/ GwLogFatal
    \/ GwDisconnectOpcua
    \/ GwDisconnectIot
    \/ GwNoIotToDisconnect

\* the gateway on its own, the detector constructed and not running
SpecGateway == InitScenario /\ [][NextGateway]_vars

(***************************************************************************)
(* test-data-collector/src/collector.py: main() creates the two clients    *)
(* and starts the observer, whose thread calls on_created for one file     *)
(* system event at a time.                                                 *)
(***************************************************************************)
ColMaxEvents == 3

\* what the files dropped into WATCH_DIR hold
ColContents == {"A", "B"}

\* hashlib.md5(content).hexdigest(), line 120
Md5(content) == CASE content = "A" -> "md5(A)" [] content = "B" -> "md5(B)"

\* str(time.time()), line 122, in the n-th event: never the same twice
TimeString(n) == <<"t1", "t2", "t3", "t4", "t5">>[n]

\* _get_file_hash, lines 117-122, in the n-th event
GetFileHash(content, readable, n) ==
    IF readable THEN Md5(content) ELSE TimeString(n)

\* lines 160-168: blob_service stays None without a connection string or
\* when from_connection_string raises
ColConnectBlob ==
    /\ col_pc = "start"
    /\ \E b \in {"None", "client"} : col_blob_service' = b
    /\ col_pc' = "blob_done"
    /\ UNCHANGED <<detVars, mainVars, gatewayVars, batteryVars, visionVars,
                   col_iot_client, col_processed_files, col_uploads, col_sends,
                   col_log>>

\* lines 170-186: iot_client stays None without a connection string or when
\* line 173 raises, and is an unconnected client when line 174 raises; the
\* handler is created with the two clients and the observer started
ColConnectIot ==
    /\ col_pc = "blob_done"
    /\ \E c \in {"None", "unconnected", "connected"} : col_iot_client' = c
    /\ col_pc' = "watching"
    /\ UNCHANGED <<detVars, mainVars, gatewayVars, batteryVars, visionVars,
                   col_blob_service, col_processed_files, col_uploads,
                   col_sends, col_log>>

\* an on_created call can start
ColEventArrives == col_pc = "watching" /\ Len(col_log) < ColMaxEvents

\* lines 62-69: a directory, or a file that is neither .csv nor .json
OnCreatedIgnored ==
    /\ ColEventArrives
    /\ col_log' = Append(col_log, [content |-> "", file_hash |-> "",
                                   stage |-> "ignored"])
    /\ UNCHANGED <<detVars, mainVars, gatewayVars, batteryVars, visionVars,
                   col_pc, col_blob_service, col_iot_client,
                   col_processed_files, col_uploads, col_sends>>

\* lines 74-76: the hash is in processed_files
OnCreatedDuplicate ==
    /\ ColEventArrives
    /\ \E content \in ColContents, readable \in BOOLEAN :
          LET file_hash == GetFileHash(content, readable, Len(col_log) + 1)
          IN  /\ file_hash \in col_processed_files
              /\ col_log' = Append(col_log, [content |-> content,
                                             file_hash |-> file_hash,
                                             stage |-> "duplicate"])
    /\ UNCHANGED <<detVars, mainVars, gatewayVars, batteryVars, visionVars,
                   col_pc, col_blob_service, col_iot_client,
                   col_processed_files, col_uploads, col_sends>>

\* lines 114-115: processed_files after the handler of an exception raised
\* between line 81 and line 109; line 111 was not reached
ProcessedAfterErrorMarked(files, file_hash) == files \cup {file_hash}

ProcessedAfterError(files, file_hash) == files

\* line 94 has run
UploadsAfterUpload(file_hash) ==
    IF col_blob_service # "None" THEN Append(col_uploads, file_hash)
    ELSE col_uploads

\* lines 81-88 raise: the file cannot be parsed
OnCreatedParseFails ==
    /\ ColEventArrives
    /\ \E content \in ColContents, readable \in BOOLEAN :
          LET file_hash == GetFileHash(content, readable, Len(col_log) + 1)
          IN  /\ file_hash \notin col_processed_files
              /\ col_processed_files' =
                    ProcessedAfterError(col_processed_files, file_hash)
              /\ col_log' = Append(col_log, [content |-> content,
                                             file_hash |-> file_hash,
                                             stage |-> "parse failed"])
    /\ UNCHANGED <<detVars, mainVars, gatewayVars, batteryVars, visionVars,
                   col_pc, col_blob_service, col_iot_client, col_uploads,
                   col_sends>>

\* lines 92-94 raise: the blob is not uploaded
OnCreatedUploadFails ==
    /\ ColEventArrives
    /\ col_blob_service # "None"
    /\ \E content \in ColContents, readable \in BOOLEAN :
          LET file_hash == GetFileHash(content, readable, Len(col_log) + 1)
          IN  /\ file_hash \notin col_processed_files
              /\ col_processed_files' =
                    ProcessedAfterError(col_processed_files, file_hash)
              /\ col_log' = Append(col_log, [content |-> content,
                                             file_hash |-> file_hash,
                                             stage |-> "upload failed"])
    /\ UNCHANGED <<detVars, mainVars, gatewayVars, batteryVars, visionVars,
                   col_pc, col_blob_service, col_iot_client, col_uploads,
                   col_sends>>

\* lines 98-108 raise, after the upload if there is a blob service
OnCreatedSendFails ==
    /\ ColEventArrives
    /\ col_iot_client # "None"
    /\ \E content \in ColContents, readable \in BOOLEAN :
          LET file_hash == GetFileHash(content, readable, Len(col_log) + 1)
          IN  /\ file_hash \notin col_processed_files
              /\ col_uploads' = UploadsAfterUpload(file_hash)
              /\ col_processed_files' =
                    ProcessedAfterError(col_processed_files, file_hash)
              /\ col_log' = Append(col_log, [content |-> content,
                                             file_hash |-> file_hash,
                                             stage |-> "send failed"])
    /\ UNCHANGED <<detVars, mainVars, gatewayVars, batteryVars, visionVars,
                   col_pc, col_blob_service, col_iot_client, col_sends>>

\* lines 78-112: nothing raises
OnCreatedCompletes ==
    /\ ColEventArrives
    /\ \E content \in ColContents, readable \in BOOLEAN :
          LET file_hash == GetFileHash(content, readable, Len(col_log) + 1)
          IN  /\ file_hash \notin col_processed_files
              /\ col_uploads' = UploadsAfterUpload(file_hash)
              /\ col_sends' = IF col_iot_client # "None"
                              THEN Append(col_sends, file_hash) ELSE col_sends
              /\ col_processed_files' = col_processed_files \cup {file_hash}
              /\ col_log' = Append(col_log, [content |-> content,
                                             file_hash |-> file_hash,
                                             stage |-> "complete"])
    /\ UNCHANGED <<detVars, mainVars, gatewayVars, batteryVars, visionVars,
                   col_pc, col_blob_service, col_iot_client>>

NextCollector ==
    \/ ColConnectBlob
    \/ ColConnectIot
    \/ OnCreatedIgnored
    \/ OnCreatedDuplicate
    \/ OnCreatedParseFails
    \/ OnCreatedUploadFails
    \/ OnCreatedSendFails
    \/ OnCreatedCompletes

\* the collector on its own
SpecCollector == InitScenario /\ [][NextCollector]_vars

(***************************************************************************)
(* ev-battery-simulator/src/simulator.py: BatteryPackState.update(dt),     *)
(* lines 88-148.  state_of_charge is kept in tenths of a percent, the      *)
(* temperature in thousandths of a degree, dt in seconds; the cell         *)
(* voltages, which update overwrites with random values and never reads,   *)
(* are left out.                                                           *)
(***************************************************************************)
BatMaxUpdates == 6

\* the dt of an update call
BatDts == {1, 6, 400, 1000}

\* max(lo, min(hi, x)), lines 130 and 148
Clamp(lo, hi, x) == IF x > hi THEN hi ELSE IF x < lo THEN lo ELSE x

\* lines 95-96
StartDischarge(s) ==
    [s EXCEPT !.test_phase = "DISCHARGING", !.phase_timer = 0,
              !.changes = @ + 1]

\* lines 101-107: discharge_rate * dt * 10 is 0.2 % per second
Discharge(s, dt) ==
    LET s1 == [s EXCEPT !.pack_current = -150,
                        !.state_of_charge = @ - 2 * dt,
                        !.pack_temp = @ + 10 * dt]
    IN  IF s1.state_of_charge <= 200
        THEN [s1 EXCEPT !.test_phase = "REST", !.phase_timer = 0,
                        !.changes = @ + 1]
        ELSE s1

\* lines 111-112
StartCharge(s) ==
    [s EXCEPT !.test_phase = "CHARGING", !.phase_timer = 0, !.changes = @ + 1]

\* lines 117-123: discharge_rate * dt * 5 is 0.1 % per second
Charge(s, dt) ==
    LET s1 == [s EXCEPT !.pack_current = 75,
                        !.state_of_charge = @ + dt,
                        !.pack_temp = @ - 5 * dt]
    IN  IF s1.state_of_charge >= 950
        THEN [s1 EXCEPT !.test_phase = "IDLE", !.phase_timer = 0,
                        !.changes = @ + 1]
        ELSE s1

\* line 127
Idle(s) == [s EXCEPT !.pack_current = 0]

\* the chain of lines 94-127 written with if in place of elif
PhaseBranchFallThrough(s, dt) ==
    LET a == IF s.test_phase = "IDLE" /\ s.phase_timer > 5
             THEN StartDischarge(s) ELSE s
        b == IF a.test_phase = "DISCHARGING" THEN Discharge(a, dt) ELSE a
        c == IF b.test_phase = "REST" /\ b.phase_timer > 10
             THEN StartCharge(b) ELSE b
        d == IF c.test_phase = "CHARGING" THEN Charge(c, dt) ELSE c
    IN  IF d.test_phase = "IDLE" THEN Idle(d) ELSE d

\* the if / elif chain of lines 94-127: the first branch whose condition holds
PhaseBranch(s, dt) ==
    IF s.test_phase = "IDLE" /\ s.phase_timer > 5 THEN StartDischarge(s)
    ELSE IF s.test_phase = "DISCHARGING" THEN Discharge(s, dt)
    ELSE IF s.test_phase = "REST" /\ s.phase_timer > 10 THEN StartCharge(s)
    ELSE IF s.test_phase = "CHARGING" THEN Charge(s, dt)
    ELSE IF s.test_phase = "IDLE" THEN Idle(s)
    ELSE s

\* BatteryPackState.update(dt), lines 88-148
update ==
    /\ bat_cycle_count < BatMaxUpdates
    /\ bat_cycle_count' = bat_cycle_count + 1
    /\ \E dt \in BatDts :
          LET s == PhaseBranch([test_phase |-> bat_test_phase,
                                phase_timer |-> bat_phase_timer + dt,
                                state_of_charge |-> bat_state_of_charge,
                                pack_current |-> bat_pack_current,
                                pack_temp |-> bat_pack_temp,
                                changes |-> 0], dt)
          IN  /\ bat_test_phase' = s.test_phase
              /\ bat_phase_timer' = s.phase_timer
              /\ bat_state_of_charge' = Clamp(0, 1000, s.state_of_charge)
              /\ bat_pack_current' = s.pack_current
              /\ bat_pack_temp' = Clamp(20000, 45000, s.pack_temp)
              /\ bat_changes' = s.changes
    /\ UNCHANGED <<detVars, mainVars, gatewayVars, collectorVars, visionVars>>

\* the battery pack on its own
SpecBattery == InitScenario /\ [][update]_vars

(***************************************************************************)
(* vision-simulator/src/simulator.py: main() constructs the station at     *)
(* line 189 and calls perform_inspection, lines 93-168, once per loop      *)
(* iteration.  Of a report, the fields made of the station's counters are  *)
(* kept.                                                                   *)
(***************************************************************************)
VisMaxInspections == 4

\* random.randint(50, 100), lines 90 and 102
VisBatchSizes == {50, 100}

\* VisionInspectionStation.__init__, lines 84-91
VisConstruct ==
    /\ vis_pc = "start"
    /\ vis_pc' = "running"
    /\ vis_current_batch' = 1
    /\ \E size \in VisBatchSizes : vis_batch_size' = size
    /\ UNCHANGED <<detVars, mainVars, gatewayVars, collectorVars, batteryVars,
                   vis_inspection_count, vis_pass_count, vis_fail_count,
                   vis_batch_count, vis_defect_counts, vis_report>>

\* the position in DEFECT_TYPES of a defect type
DefectIndex(defect_type) ==
    CHOOSE k \in 1..Len(DEFECT_TYPES) : DEFECT_TYPES[k] = defect_type

\* lines 125-130: the statistics of the report, built before the result of
\* the inspection is counted at lines 144-148
Statistics(inspection_count, pass_count, fail_count) ==
    [totalInspections |-> inspection_count, totalPass |-> pass_count,
     totalFail |-> fail_count]

\* VisionInspectionStation.perform_inspection, lines 93-168
perform_inspection ==
    /\ vis_pc = "running"
    /\ vis_inspection_count < VisMaxInspections
    /\ vis_inspection_count' = vis_inspection_count + 1
    /\ \E size \in VisBatchSizes :
          IF vis_batch_count + 1 >= vis_batch_size
          THEN /\ vis_current_batch' = vis_current_batch + 1
               /\ vis_batch_count' = 0
               /\ vis_batch_size' = size
          ELSE /\ vis_batch_count' = vis_batch_count + 1
               /\ UNCHANGED <<vis_current_batch, vis_batch_size>>
    /\ \E passed \in BOOLEAN, defect_type \in {DEFECT_TYPES[k] : k \in 1..Len(DEFECT_TYPES)} :
          LET statistics == Statistics(vis_inspection_count', vis_pass_count,
                                       vis_fail_count)
          IN  /\ vis_pass_count' = IF passed THEN vis_pass_count + 1
                                   ELSE vis_pass_count
              /\ vis_fail_count' = IF passed THEN vis_fail_count
                                   ELSE vis_fail_count + 1
              /\ vis_defect_counts' =
                    IF passed THEN vis_defect_counts
                    ELSE [vis_defect_counts EXCEPT ![DefectIndex(defect_type)] = @ + 1]
              /\ vis_report' =
                    [made |-> TRUE,
                     result |-> IF passed THEN "PASS" ELSE "FAIL",
                     defectType |-> IF passed THEN "None" ELSE defect_type,
                     batchId |-> vis_current_batch',
                     totalInspections |-> statistics.totalInspections,
                     totalPass |-> statistics.totalPass,
                     totalFail |-> statistics.totalFail,
                     defectDistribution |-> vis_defect_counts']
    /\ UNCHANGED <<detVars, mainVars, gatewayVars, collectorVars, batteryVars,
                   vis_pc>>

NextVision == VisConstruct \/ perform_inspection

\* the vision station on its own
SpecVision == InitScenario /\ [][NextVision]_vars

(***************************************************************************)
(* Properties of AnomalyDetector.add_sample, checked under SpecDetector.    *)
(***************************************************************************)
\* the window of the signal of the last call, after the call
LastWindow == history[lastCall.tag]

\* the last n elements of s
LastN(s, n) == SubSeq(s, Len(s) - n + 1, Len(s))

Min(a, b) == IF a < b THEN a ELSE b

AllSame(s) == \A j, k \in 1..Len(s) : s[j] = s[k]

\* C1: for every signal, after any sequence of add_sample calls, the window
\* of the signal holds at most window_size values.
C1_WindowBounded ==
    \A t \in DOMAIN history : Len(history[t]) <= window_size

\* a signal has been pushed more often than the window is long
C1_Witness ==
    \E t \in DOMAIN history :
        /\ Len(pushed[t]) > window_size
        /\ Len(history[t]) = window_size

\* C2: after k add_sample calls for a signal its window holds exactly
\* min(k, window_size) values, the most recent ones in arrival order; a push
\* into a full window evicts the oldest value and nothing else.
C2_WindowIsMostRecent ==
    /\ DOMAIN history = DOMAIN pushed
    /\ \A t \in DOMAIN history :
          /\ Len(history[t]) = Min(Len(pushed[t]), window_size)
          /\ history[t] = LastN(pushed[t], Min(Len(pushed[t]), window_size))
    /\ lastCall.made =>
          LastWindow = IF Len(lastCall.before) = window_size
                       THEN Append(Tail(lastCall.before), lastCall.value)
                       ELSE Append(lastCall.before, lastCall.value)

\* a push into a full window of two or more values that are not all the same
C2_Witness ==
    /\ lastCall.made
    /\ window_size >= 2
    /\ Len(lastCall.before) = window_size
    /\ ~AllSame(lastCall.before)
    /\ lastCall.value # Head(lastCall.before)

\* C3: add_sample returns (None, None, None) exactly when the window, after
\* the insertion, holds fewer than window_size // 2 values; otherwise it
\* returns Normal or Anomalous with a z-score and a mean.
C3_InsufficientIffBelowGate ==
    lastCall.made =>
        /\ (Classification(lastCall.ret) = "Insufficient")
              <=> (Len(LastWindow) < window_size \div 2)
        /\ Classification(lastCall.ret) = "Insufficient" =>
              /\ lastCall.ret.z_score_sq = None
              /\ lastCall.ret.mean = None
        /\ Classification(lastCall.ret) # "Insufficient" =>
              /\ lastCall.ret.z_score_sq # None
              /\ lastCall.ret.mean # None

\* the call that brings a window to exactly window_size // 2 >= 2 values
C3_Witness ==
    /\ lastCall.made
    /\ window_size \div 2 >= 2
    /\ Len(LastWindow) = window_size \div 2
    /\ Classification(lastCall.ret) # "Insufficient"

\* C4: when the window after the insertion holds at least window_size // 2
\* values that are all identical, add_sample returns Normal with z-score 0
\* and the window mean, and does not divide by the standard deviation.
C4_FlatWindowIsNormal ==
    (/\ lastCall.made
     /\ Len(LastWindow) >= window_size \div 2
     /\ AllSame(LastWindow)) =>
        /\ lastCall.ret.is_anomaly = "False"
        /\ lastCall.ret.z_score_sq = <<0, 1>>
        /\ RatEq(lastCall.ret.mean, <<lastCall.value, 1>>)
        /\ ~lastCall.ret.divided

\* a flat window of two or more values has been classified
C4_Witness ==
    /\ lastCall.made
    /\ Len(LastWindow) >= 2
    /\ Len(LastWindow) >= window_size \div 2
    /\ AllSame(LastWindow)
    /\ lastCall.value # 0

\* sum of the squares of the elements of s
SumOfSquares(s) == SumSeq([k \in 1..Len(s) |-> s[k] * s[k]])

\* n^2 times the population variance of s: n * sum(x^2) - (sum x)^2
VarianceTimesNSq(s) == Len(s) * SumOfSquares(s) - SumSeq(s) * SumSeq(s)

\* (value - mean(s)) / popstd(s) > thr, for a window s that is not flat
ZExceeds(value, s, thr) ==
    (Len(s) * value - SumSeq(s)) * (Len(s) * value - SumSeq(s)) * thr[2] * thr[2]
        > thr[1] * thr[1] * VarianceTimesNSq(s)

\* (value - mean(s)) / popstd(s) = thr, for a window s that is not flat
ZEquals(value, s, thr) ==
    (Len(s) * value - SumSeq(s)) * (Len(s) * value - SumSeq(s)) * thr[2] * thr[2]
        = thr[1] * thr[1] * VarianceTimesNSq(s)

\* C5: past the gate and with a non-zero standard deviation, add_sample
\* returns Anomalous iff abs(value - mean) / std_dev > threshold, with the
\* arithmetic mean and the population standard deviation of the window; a
\* z-score equal to the threshold is Normal.
C5_AnomalousIffZAboveThreshold ==
    (/\ lastCall.made
     /\ Len(LastWindow) >= window_size \div 2
     /\ VarianceTimesNSq(LastWindow) # 0) =>
        /\ (lastCall.ret.is_anomaly = "True")
              <=> ZExceeds(lastCall.value, LastWindow, threshold)
        /\ (lastCall.ret.is_anomaly = "False")
              <=> ~ZExceeds(lastCall.value, LastWindow, threshold)
        /\ RatEq(lastCall.ret.mean, <<SumSeq(LastWindow), Len(LastWindow)>>)
        /\ ZEquals(lastCall.value, LastWindow, threshold)
              => Classification(lastCall.ret) = "Normal"

\* a sample whose z-score equals the threshold has been classified
C5_Witness ==
    /\ lastCall.made
    /\ Len(LastWindow) >= window_size \div 2
    /\ VarianceTimesNSq(LastWindow) # 0
    /\ ZEquals(lastCall.value, LastWindow, threshold)

\* C6: the mean and the standard deviation used to classify a sample are
\* computed over the window after the sample has been inserted (and the
\* oldest value evicted from a full window): the sample is one of the values
\* of its own baseline.
C6_BaselineIsPostInsertion ==
    (lastCall.made /\ Classification(lastCall.ret) # "Insufficient") =>
        /\ lastCall.ret.values = LastWindow
        /\ lastCall.ret.values[Len(lastCall.ret.values)] = lastCall.value
        /\ lastCall.ret.mean = <<SumSeq(LastWindow), Len(LastWindow)>>
        /\ Len(lastCall.before) = window_size =>
              lastCall.ret.values = Append(Tail(lastCall.before), lastCall.value)

\* a sample that changes the mean has been classified on a full window
C6_Witness ==
    /\ lastCall.made
    /\ Classification(lastCall.ret) # "Insufficient"
    /\ window_size >= 2
    /\ Len(lastCall.before) = window_size
    /\ SumSeq(LastWindow) # SumSeq(lastCall.before)

\* Unseen -> Warming-up -> Evaluating, by the latest result of the signal
Phase(lc, t) ==
    IF t \notin DOMAIN lc THEN 0
    ELSE IF lc[t] = "Insufficient" THEN 1
    ELSE 2

\* C7: per signal the state only moves forward along Unseen -> Warming-up ->
\* Evaluating: after a non-Insufficient result for a signal, every later
\* add_sample for it returns a non-Insufficient result.
C7_PhaseOnlyMovesForward ==
    [][\A t \in Signals \cup DOMAIN lastClass :
          Phase(lastClass', t) >= Phase(lastClass, t)]_vars

\* a signal that went through warm-up is evaluated on an evicting window
C7_Witness ==
    /\ lastCall.made
    /\ window_size \div 2 >= 2
    /\ Len(lastCall.before) = window_size
    /\ Phase(lastClass, lastCall.tag) = 2

\* the call is the first add_sample for its signal
FirstSample == lastCall.made /\ Len(pushed[lastCall.tag]) = 1

OutcomeOf(t) == outcome[TagIndex(t)]

\* the cycle's for loop is over and the next cycle has not begun
CycleDone == ForLoopDone \/ (pc \in {"sleep", "loop_top"} /\ cycle > 0)

\* the display names of the entries of a batch, in order
BatchTags(batch) == [k \in 1..Len(batch) |-> batch[k].tag]

\* C9: a failed read of one monitored signal does not abort the cycle: when
\* the for loop is over every monitored signal has been read, each one either
\* failed or classified, the loop is still running, and the batch holds
\* entries only of signals whose read succeeded.
C9_FetchFailureIsIsolated ==
    /\ pc = "poll" =>
          \A k \in 1..Len(nodes) :
              (OutcomeOf(nodes[k]) = "Pending") <=> (k >= idx)
    /\ CycleDone =>
          \A k \in 1..Len(nodes) :
              OutcomeOf(nodes[k]) \in {"Failed", "Insufficient", "Normal", "Anomalous"}
    /\ \A k \in 1..Len(anomalies_detected) :
          (pc = "poll" \/ CycleDone) =>
              OutcomeOf(anomalies_detected[k].tag) \notin {"Failed", "Pending"}
    /\ cycle > 0 => pc \in {"poll", "sleep", "loop_top"}

\* three monitored signals, the read of the first failed, the other two classified
C9_Witness ==
    /\ ForLoopDone
    /\ Len(nodes) = 3
    /\ OutcomeOf(nodes[1]) = "Failed"
    /\ OutcomeOf(nodes[2]) = "Anomalous"
    /\ OutcomeOf(nodes[3]) = "Normal"
    /\ BatchTags(anomalies_detected) = <<nodes[2]>>

\* the signal was classified Anomalous in the running cycle
AnomalousNow(t) == OutcomeOf(t) = "Anomalous"

\* C10: the batch of a cycle holds exactly one entry for each signal whose
\* sample was classified Anomalous in that cycle, in monitored-signal order,
\* with the signal's name and the configured threshold; signals classified
\* Insufficient or Normal in the cycle and anomalies of earlier cycles are
\* not in it.
C10_BatchIsThisCyclesAnomalies ==
    (pc = "poll" \/ CycleDone) =>
        /\ BatchTags(anomalies_detected) = SelectSeq(nodes, AnomalousNow)
        /\ \A k \in 1..Len(anomalies_detected) :
              anomalies_detected[k].threshold = threshold

\* a signal of an earlier cycle's alert is Normal in this cycle and not in
\* its batch, which holds another signal
C10_Witness ==
    /\ ForLoopDone
    /\ anomalies_detected # <<>>
    /\ \E a \in 1..Len(alerts) :
          /\ alerts[a].payload.timestamp < cycle
          /\ \E j \in 1..Len(alerts[a].payload.anomalies) :
                OutcomeOf(alerts[a].payload.anomalies[j].tag) = "Normal"

(***************************************************************************)
(* Properties of the alert step and of the loop of main(), checked under   *)
(* Spec.                                                                   *)
(***************************************************************************)
\* the positions in alerts of the payloads handed to send_message in cycle k
AlertsOfCycle(k) == {i \in 1..Len(alerts) : alerts[i].payload.timestamp = k}

\* the alert step of the running cycle is over
AlertStepDone == pc \in {"sleep", "loop_top"} /\ cycle > 0

\* C11 as stated: in every cycle whose batch is non-empty, one alert payload
\* holding the batch is handed to send_message, exactly once in that cycle.
C11_NonEmptyBatchIsSent ==
    (AlertStepDone /\ anomalies_detected # <<>>) =>
        /\ Cardinality(AlertsOfCycle(cycle)) = 1
        /\ \A i \in AlertsOfCycle(cycle) :
              alerts[i].payload.anomalies = anomalies_detected

\* C11, amended: no cycle hands more than one payload to send_message; a
\* cycle whose batch is non-empty hands exactly one, holding the batch, when
\* iot_client is not None, and a cycle whose batch is empty or that runs
\* with iot_client None hands none.
C11_NonEmptyBatchIsSentWhenSinkExists ==
    /\ \A k \in 1..cycle : Cardinality(AlertsOfCycle(k)) <= 1
    /\ \A i \in 1..Len(alerts) : alerts[i].payload.timestamp \in 1..cycle
    /\ AlertStepDone =>
          IF anomalies_detected # <<>> /\ iot_client # "None"
          THEN /\ Cardinality(AlertsOfCycle(cycle)) = 1
               /\ \A i \in AlertsOfCycle(cycle) :
                     alerts[i].payload.anomalies = anomalies_detected
          ELSE AlertsOfCycle(cycle) = {}

C11_Witness ==
    /\ AlertStepDone
    /\ anomalies_detected # <<>>
    /\ iot_client = "unconnected"
    /\ Cardinality(AlertsOfCycle(cycle)) = 1
    /\ alerts[Len(alerts)].payload.anomalies = anomalies_detected

\* C12: the severity of every alert payload is "critical" exactly when its
\* anomalyCount, the length of its anomalies list, is at least 2, and
\* "warning" otherwise.
C12_SeverityFollowsAnomalyCount ==
    \A i \in 1..Len(alerts) :
        LET p == alerts[i].payload
        IN  /\ p.anomalyCount = Len(p.anomalies)
            /\ p.anomalyCount >= 1
            /\ p.severity \in {"warning", "critical"}
            /\ p.severity = "critical" <=> p.anomalyCount >= 2
            /\ p.severity = "warning" <=> p.anomalyCount < 2

C12_Witness ==
    \E i, j \in 1..Len(alerts) :
        /\ alerts[i].payload.anomalyCount = 1
        /\ alerts[i].payload.severity = "warning"
        /\ alerts[j].payload.anomalyCount = 2
        /\ alerts[j].payload.severity = "critical"

\* C13: along the payloads handed to send_message, in order, totalAnomalies
\* never decreases, whether reads or deliveries failed in between; no
\* payload reports more than anomaly_count holds.
C13_TotalAnomaliesNeverDecreases ==
    /\ \A i \in 1..Len(alerts) : alerts[i].payload.totalAnomalies <= anomaly_count
    /\ \A i, j \in 1..Len(alerts) :
          i < j => alerts[i].payload.totalAnomalies
                      <= alerts[j].payload.totalAnomalies

C13_Witness ==
    /\ Len(alerts) >= 2
    /\ ~alerts[1].delivered
    /\ "Error reading" \in logged
    /\ alerts[1].payload.totalAnomalies < alerts[2].payload.totalAnomalies
    /\ alerts[2].payload.anomalyCount < alerts[1].payload.anomalyCount

\* the step hands a payload to send_message and send_message raises
SendFailsInStep ==
    /\ Len(alerts') = Len(alerts) + 1
    /\ ~alerts'[Len(alerts')].delivered

\* C14: a send_message that raises is caught and logged and does not end the
\* loop: main() goes on to the sleep of the same cycle with the detector,
\* the connections and anomaly_count untouched, the sleep is followed by the
\* top of the loop, and the top of the loop by the reads of the next cycle.
C14_DeliveryFailureKeepsLoopRunning ==
    [][/\ SendFailsInStep =>
             /\ pc' = "sleep"
             /\ "Failed to send alert" \in logged'
             /\ UNCHANGED <<fleetVars, gatewayVars, healthVars, detVars, iot_client, client, nodes,
                            anomaly_count, cycle, released>>
       /\ pc = "sleep" => pc' = "loop_top" /\ cycle' = cycle
       /\ pc = "loop_top" => pc' = "poll" /\ cycle' = cycle + 1 /\ idx' = 1
      ]_vars

C14_Witness ==
    \E i \in 1..Len(alerts) :
        /\ ~alerts[i].delivered
        /\ alerts[i].payload.timestamp < cycle
        /\ pc = "poll"
        /\ idx > 1
        /\ released = {}

\* the value read for a signal in the running cycle
ValueReadNow(t) == pushed[t][Len(pushed[t])]

\* C15: the anomalies of a cycle whose delivery failed are dropped: every
\* cycle starts from an empty batch, a payload handed to send_message is
\* appended to those handed over before, which stay as they were and are all
\* of earlier cycles, and its anomalies list holds exactly the signals
\* classified Anomalous in its own cycle, with the values read in that cycle.
C15_FailedBatchIsNeverResent ==
    [][/\ pc = "loop_top" => anomalies_detected' = <<>>
       /\ alerts' # alerts =>
             /\ Len(alerts') = Len(alerts) + 1
             /\ SubSeq(alerts', 1, Len(alerts)) = alerts
             /\ \A i \in 1..Len(alerts) : alerts[i].payload.timestamp < cycle
             /\ LET p == alerts'[Len(alerts')].payload
                IN  /\ p.timestamp = cycle
                    /\ BatchTags(p.anomalies) = SelectSeq(nodes, AnomalousNow)
                    /\ \A k \in 1..Len(p.anomalies) :
                          p.anomalies[k].value =
                             Round(<<ValueReadNow(p.anomalies[k].tag), 1>>, 1000)
      ]_vars

\* the delivery of a cycle's payload failed and the payload of a later cycle
\* does not hold a signal of the failed one
C15_Witness ==
    \E i, j \in 1..Len(alerts) :
        /\ i < j
        /\ ~alerts[i].delivered
        /\ \E k \in 1..Len(alerts[i].payload.anomalies) :
              \A m \in 1..Len(alerts[j].payload.anomalies) :
                  alerts[j].payload.anomalies[m].tag
                     # alerts[i].payload.anomalies[k].tag

\* every read since the loop was entered has failed
NoReadEverSucceeded == nodes # <<>> /\ reads > 0 /\ pushed = EmptyDict

\* C16: when the transport is unreachable from some cycle on, so that every
\* read fails, the failure is surfaced to the handler of line 179 and the
\* loop shuts down instead of cycling on: main() does not complete two
\* cycles of nothing but failed reads and carry on to the next.
C16_UnreachableTransportShutsDown ==
    (NoReadEverSucceeded /\ cycle >= 2 /\ reads >= 2 * Len(nodes)) =>
        pc \notin {"sleep", "loop_top"}

(***************************************************************************)
(* Properties of the exit paths of main(), checked under Spec.             *)
(***************************************************************************)
\* disconnect() of the connection was called, whether it returned or raised
ReleaseAttempted(conn) == \E how \in {"returned", "raised"} : <<conn, how>> \in released

\* main() is in the handler of line 179, in the finally block or has returned
ShuttingDown == pc \in {"fatal", "finally_client", "finally_iot", "exit"}

\* C17: when client.connect() fails at start-up the loop is never entered:
\* no node is looked up, no value is read or classified, no alert is built
\* or sent; the error is logged as fatal and the finally block runs.
C17_StartupConnectFailureSkipsLoop ==
    client = "failed" =>
        /\ ShuttingDown
        /\ cycle = 0 /\ reads = 0 /\ nodes = <<>>
        /\ history = EmptyDict /\ pushed = EmptyDict /\ ~lastCall.made
        /\ anomalies_detected = <<>> /\ alerts = <<>>
        /\ pc # "fatal" => "Fatal Error" \in logged
        /\ pc \in {"finally_iot", "exit"} => ReleaseAttempted("client")

C17_Witness ==
    /\ client = "failed"
    /\ pc = "exit"
    /\ "Fatal Error" \in logged
    /\ ReleaseAttempted("client")
    /\ cycle = 0

SpecFair == InitThreads /\ [][Next]_vars /\ WF_vars(Next)

\* cycle k begins, with reads left for each of its nodes
CycleBegins(k) ==
    /\ pc = "poll" /\ idx = 1 /\ cycle = k
    /\ reads + Len(nodes) <= MaxReads

\* C19: once the loop is entered it has no terminal state: every cycle that
\* begins is eventually followed by the beginning of the next one, whichever
\* reads and deliveries fail on the way.
C19_EveryCycleIsFollowedByAnother ==
    \A k \in 1..(MaxCycles - 1) :
        CycleBegins(k) ~> (pc = "poll" /\ idx = 1 /\ cycle = k + 1)

\* a cycle has begun after a cycle with a failed read and a failed delivery
C19_Witness ==
    /\ pc = "poll" /\ idx = 1 /\ cycle >= 2
    /\ "Error reading" \in logged
    /\ "Failed to send alert" \in logged
    /\ alerts[Len(alerts)].payload.timestamp = cycle - 1

(***************************************************************************)
(* Properties of the windows of AnomalyDetector, checked under              *)
(* SpecDetector.                                                           *)
(***************************************************************************)
\* at least one sample of the signal has been added
SampleAdded(t) == t \in DOMAIN pushed /\ pushed[t] # <<>>

\* C20: a signal has a window exactly when a sample has been added for it;
\* the window is created by the first add_sample for the signal, holding
\* that sample; an add_sample call touches no window but that of its own
\* signal, and no window is ever removed: the set of known signals only
\* grows.
C20_WindowsAreLazyAndPermanent ==
    /\ [](\A t \in Signals : t \in DOMAIN history <=> SampleAdded(t))
    /\ [][/\ DOMAIN history \subseteq DOMAIN history'
          /\ \A t \in DOMAIN history' \ DOMAIN history :
                /\ lastCall'.tag = t
                /\ history'[t] = <<lastCall'.value>>
          /\ \A t \in DOMAIN history :
                t # lastCall'.tag => history'[t] = history[t]
          /\ Cardinality(DOMAIN history') <= Cardinality(DOMAIN history) + 1
         ]_vars

\* a first sample has just created a window, the window of another signal
\* has been full for a while and is still there
C20_Witness ==
    /\ lastCall.made
    /\ lastCall.before = <<>>
    /\ history[lastCall.tag] = <<lastCall.value>>
    /\ \E t \in DOMAIN history :
          t # lastCall.tag /\ Len(pushed[t]) > window_size

\* the window of a detector that was given the samples of seq, oldest first
RECURSIVE WindowOf(_, _)
WindowOf(seq, ws) ==
    IF seq = <<>> THEN <<>>
    ELSE DequeAppend(WindowOf(SubSeq(seq, 1, Len(seq) - 1), ws), seq[Len(seq)], ws)

\* what add_sample returns for the last sample of seq in a detector that has
\* never seen another signal
ReplayAlone(seq, ws, thr) ==
    LET earlier == SubSeq(seq, 1, Len(seq) - 1)
        h == IF earlier = <<>> THEN EmptyDict ELSE ("alone" :> WindowOf(earlier, ws))
    IN  AddSampleReturn(h, "alone", seq[Len(seq)], ws, thr)

\* C21: signals are independent: what add_sample returns for a sample, and
\* the latest classification of every signal, is what a detector fed with
\* that signal's samples alone returns, however the samples of other signals
\* are interleaved; and an add_sample call leaves the window of every other
\* signal as it was.
C21_SignalsAreIndependent ==
    /\ [](/\ lastCall.made =>
                lastCall.ret = ReplayAlone(pushed[lastCall.tag], window_size,
                                           threshold)
          /\ \A t \in DOMAIN lastClass :
                lastClass[t] = Classification(ReplayAlone(pushed[t], window_size,
                                                          threshold)))
    /\ [][\A t \in DOMAIN history :
             t # lastCall'.tag => t \in DOMAIN history' /\ history'[t] = history[t]
         ]_vars

\* two signals fed in turn with different samples and classified differently
C21_Witness ==
    /\ DOMAIN pushed = {"Vibration", "Temperature"}
    /\ Len(pushed["Vibration"]) >= 2
    /\ Len(pushed["Temperature"]) >= 2
    /\ pushed["Vibration"][1] # pushed["Temperature"][1]
    /\ lastClass["Vibration"] = "Anomalous"
    /\ lastClass["Temperature"] = "Normal"
    /\ lastCall.tag = "Temperature"
    /\ lastCall.before # <<>>

(***************************************************************************)
(* The end-to-end scenarios of the detector, checked under SpecScenario.   *)
(***************************************************************************)
\* the ramp 70, 71, ..., 89
Ramp == [k \in 1..20 |-> 69 + k]

\* C22: with window_size 20 and threshold 2.5, once a signal has been primed
\* with 70, 71, ..., 89 in order, the value 200 for that signal is
\* classified Anomalous: its window is then 71, ..., 89, 200, of mean 86 and
\* variance 1425 / 2, and z^2 = 114^2 * 2 / 1425 = 456 / 25.
C22_OutlierAfterRampIsAnomalous ==
    (lastCall.made /\ lastCall.tag = "Vibration" /\ lastCall.value = 200) =>
        /\ lastCall.before = Ramp
        /\ lastCall.ret.values = Append(Tail(Ramp), 200)
        /\ Classification(lastCall.ret) = "Anomalous"
        /\ lastCall.ret.mean = <<1720, 20>>
        /\ lastCall.ret.z_score_sq = <<456, 25>>

C22_Witness ==
    /\ lastCall.made
    /\ lastCall.tag = "Vibration"
    /\ lastCall.value = 200
    /\ pushed["Vibration"] = Append(Ramp, 200)
    /\ lastCall.ret.is_anomaly = "True"

\* C23: with window_size 20 and threshold 2.5, of ten samples of value 72 for
\* a signal not seen before the first nine are Insufficient (nothing is
\* reported) and the tenth is Normal with z-score 0 and mean 72.
C23_TenFlatSamples ==
    (lastCall.made /\ lastCall.tag = "Temperature") =>
        LET k == Len(pushed["Temperature"])
        IN  /\ pushed["Temperature"] = [j \in 1..k |-> 72]
            /\ k \in 1..9 =>
                  /\ Classification(lastCall.ret) = "Insufficient"
                  /\ lastCall.ret.z_score_sq = None
                  /\ lastCall.ret.mean = None
            /\ k = 10 =>
                  /\ Classification(lastCall.ret) = "Normal"
                  /\ lastCall.ret.z_score_sq = <<0, 1>>
                  /\ RatEq(lastCall.ret.mean, <<72, 1>>)
                  /\ ~lastCall.ret.divided

C23_Witness ==
    /\ lastCall.made
    /\ lastCall.tag = "Temperature"
    /\ Len(pushed["Temperature"]) = 10
    /\ lastCall.ret.is_anomaly = "False"
    /\ lastCall.ret.mean = <<720, 10>>
    /\ lastClass["Temperature"] = "Normal"

(***************************************************************************)
(* Further properties of the alert payloads, checked under Spec.           *)
(***************************************************************************)
\* the monitored nodes classified Anomalous in the running cycle
AnomalousNodesNow == {k \in 1..Len(nodes) : AnomalousNow(nodes[k])}

\* C24: in every alert payload anomalyCount is the number of entries of its
\* anomalies list and at least 1, totalAnomalies is at least anomalyCount,
\* and the anomalyCount of the payload of the running cycle is the number of
\* signals classified Anomalous in this cycle.
C24_AnomalyCountIsBatchSize ==
    /\ \A i \in 1..Len(alerts) :
          /\ alerts[i].payload.anomalyCount = Len(alerts[i].payload.anomalies)
          /\ alerts[i].payload.anomalyCount >= 1
          /\ alerts[i].payload.totalAnomalies >= alerts[i].payload.anomalyCount
    /\ AlertStepDone =>
          \A i \in AlertsOfCycle(cycle) :
              alerts[i].payload.anomalyCount = Cardinality(AnomalousNodesNow)

\* a payload of two anomalies in a cycle after one with an anomaly
C24_Witness ==
    /\ AlertStepDone
    /\ Cardinality(AnomalousNodesNow) = 2
    /\ alerts # <<>>
    /\ alerts[Len(alerts)].payload.timestamp = cycle
    /\ alerts[Len(alerts)].payload.anomalyCount = 2
    /\ alerts[Len(alerts)].payload.totalAnomalies = 3

C26_GatewayDeliveryFailureKeepsLoopRunning ==
    \A i \in 1..Len(gw_sends) :
        ~gw_sends[i].delivered =>
            gw_pc \in {"sleep", "loop_top", "read"}

\* C27: for every window_size >= 1, whenever add_sample gets to the mean and
\* the standard deviation, the values they are computed over are at least
\* one and at least window_size // 2: no baseline is computed over nothing.
C27_BaselineOverNonEmptyWindow ==
    (lastCall.made /\ lastCall.ret.is_anomaly # "None") =>
        /\ window_size >= 1
        /\ Len(lastCall.ret.values) >= 1
        /\ Len(lastCall.ret.values) >= window_size \div 2
        /\ lastCall.ret.mean # NaN
        /\ lastCall.ret.mean[2] = Len(lastCall.ret.values)

\* the smallest case: window_size 1 and the first sample of a signal
C27_Witness ==
    /\ lastCall.made
    /\ window_size = 1
    /\ lastCall.before = <<>>
    /\ lastCall.ret.is_anomaly = "False"
    /\ lastCall.ret.values = <<lastCall.value>>

\* the number of the first sample of a signal that is evaluated
FirstEvaluated(ws) == IF ws \div 2 < 1 THEN 1 ELSE ws \div 2

\* C28: the warm-up gate is not "window full": the k-th sample of a signal is
\* evaluated (Normal or Anomalous) exactly when k >= max(1, window_size // 2),
\* and for window_size >= 2 the sample number max(1, window_size // 2) is
\* evaluated over a window of fewer than window_size values.
C28_EvaluationStartsAtHalfWindow ==
    lastCall.made =>
        LET k == Len(pushed[lastCall.tag])
        IN  /\ Classification(lastCall.ret) \in {"Normal", "Anomalous"}
                  <=> k >= FirstEvaluated(window_size)
            /\ (window_size >= 2 /\ k = FirstEvaluated(window_size)) =>
                  /\ Classification(lastCall.ret) \in {"Normal", "Anomalous"}
                  /\ Len(LastWindow) = k
                  /\ Len(LastWindow) < window_size

\* the second sample of a signal is Anomalous in a window of size 4
C28_Witness ==
    /\ lastCall.made
    /\ window_size = 4
    /\ Len(pushed[lastCall.tag]) = 2
    /\ Len(LastWindow) = 2
    /\ Classification(lastCall.ret) = "Anomalous"

(***************************************************************************)
(* Properties of the two threads of detector.py, checked under SpecThreads. *)
(***************************************************************************)
\* the step is one of the health thread
HealthThreadStep == health_server' # health_server \/ health_response' # health_response

\* the step changes the detector or the anomaly counter
DetectorStep ==
    \/ history' # history
    \/ pushed' # pushed
    \/ lastCall' # lastCall
    \/ lastClass' # lastClass
    \/ anomaly_count' # anomaly_count

\* C29: however the health thread and the polling loop interleave, a step of
\* the health thread leaves the detector's windows, the anomaly counter and
\* the position of the polling loop unchanged; the windows and the counter
\* are only changed by the polling loop, in the read of one monitored signal
\* at a time: one add_sample call, for the signal the for loop is at, after
\* which the loop is at the next signal.
C29_OnlyThePollingLoopTouchesTheDetector ==
    [][/\ HealthThreadStep =>
             UNCHANGED <<detVars, anomaly_count, anomalies_detected, pc, idx,
                         cycle, reads, alerts>>
       /\ DetectorStep =>
             /\ UNCHANGED healthVars
             /\ pc = "poll" /\ pc' = "poll"
             /\ idx <= Len(nodes)
             /\ idx' = idx + 1
             /\ reads' = reads + 1
             /\ lastCall'.tag = nodes[idx]
             /\ \A t \in DOMAIN history :
                   t # nodes[idx] => history'[t] = history[t]
             /\ TotalPushed' = TotalPushed + 1
      ]_vars

\* a health request has been answered between the reads of two signals of a
\* cycle
C29_Witness ==
    /\ pc = "poll"
    /\ idx = 2
    /\ Len(nodes) >= 2
    /\ health_response = "200"
    /\ lastCall.made
    /\ lastCall.tag = nodes[1]
    /\ cycle = 2

(***************************************************************************)
(* The order of the steps of a cycle of main(), checked under Spec.        *)
(***************************************************************************)
\* the step hands a payload to send_message
SendInStep == alerts' # alerts

\* the step is a get_value call
FetchInStep == reads' # reads

\* C30: cycles run one after another, nothing is buffered: a payload is
\* handed to send_message only when every monitored node of the running
\* cycle has been read, it is the payload of the running cycle, the first
\* such in the cycle, and its batch is not empty; a read is made only while
\* no payload of the running cycle has been handed over, so the first read
\* of cycle k + 1 comes after the send of cycle k has returned or raised.
C30_CyclesRunSerially ==
    [][/\ SendInStep =>
             /\ pc = "poll" /\ idx = Len(nodes) + 1
             /\ \A k \in 1..Len(nodes) : OutcomeOf(nodes[k]) # "Pending"
             /\ AlertsOfCycle(cycle) = {}
             /\ Len(alerts') = Len(alerts) + 1
             /\ alerts'[Len(alerts')].payload.timestamp = cycle
             /\ alerts'[Len(alerts')].payload.anomalies # <<>>
             /\ ~FetchInStep
             /\ pc' = "sleep"
       /\ FetchInStep =>
             /\ pc = "poll" /\ idx <= Len(nodes)
             /\ AlertsOfCycle(cycle) = {}
             /\ \A i \in 1..Len(alerts) : alerts[i].payload.timestamp < cycle
             /\ cycle' = cycle
       /\ cycle' # cycle =>
             /\ cycle' = cycle + 1
             /\ pc = "loop_top"
             /\ ~SendInStep /\ ~FetchInStep
      ]_vars

\* the first read of a cycle has been made after the send of the cycle
\* before raised
C30_Witness ==
    /\ pc = "poll"
    /\ idx = 2
    /\ cycle = 3
    /\ alerts # <<>>
    /\ alerts[Len(alerts)].payload.timestamp = 2
    /\ ~alerts[Len(alerts)].delivered
    /\ OutcomeOf(nodes[1]) # "Pending"


\* the number of Anomalous results among the add_sample calls that were given
\* the samples of seq, oldest first
AnomaliesIn(seq) ==
    Cardinality({k \in 1..Len(seq) :
                    ReplayAlone(SubSeq(seq, 1, k), window_size,
                                threshold).is_anomaly = "True"})

\* the number of Anomalous classifications since the process started
ClassifiedAnomalous ==
    SumSeq([k \in 1..Len(MONITORED_TAGS) |->
               IF MONITORED_TAGS[k] \in DOMAIN pushed
               THEN AnomaliesIn(pushed[MONITORED_TAGS[k]])
               ELSE 0])

\* C31: the totalAnomalies of a payload handed to send_message is the number
\* of Anomalous classifications made since the process started, the current
\* cycle's included, whether the alerts of earlier cycles were delivered or
\* not; between two consecutive payloads it grows by at least the later
\* payload's anomalyCount.
C31_TotalAnomaliesCountsEveryAnomaly ==
    /\ [](anomaly_count = ClassifiedAnomalous)
    /\ [][SendInStep =>
             alerts'[Len(alerts')].payload.totalAnomalies = ClassifiedAnomalous]_vars
    /\ [](\A i \in 1..Len(alerts) - 1 :
             alerts[i + 1].payload.totalAnomalies
                >= alerts[i].payload.totalAnomalies
                      + alerts[i + 1].payload.anomalyCount)

\* a second payload counts the anomalies of a first one that was not delivered
C31_Witness ==
    /\ Len(alerts) = 2
    /\ ~alerts[1].delivered
    /\ alerts[1].payload.anomalyCount = 2
    /\ alerts[2].payload.anomalyCount = 1
    /\ alerts[2].payload.totalAnomalies = 3
    /\ ClassifiedAnomalous = 3


\* the number of samples pushed for signal t so far
PushedFor(t) == IF t \in DOMAIN pushed THEN Len(pushed[t]) ELSE 0

\* the window length of signal t, 0 when it has no window
WindowLen(h, t) == IF t \in DOMAIN h THEN Len(h[t]) ELSE 0

\* C33: a fetch that fails leaves every window as it was, a fetch that
\* succeeds pushes exactly one value, into the window of the fetched signal
\* only; the window length of a signal is min(window_size, number of its
\* successful fetches).
C33_OnePushPerSuccessfulFetch ==
    /\ [](\A k \in 1..Len(MONITORED_TAGS) :
             WindowLen(history, MONITORED_TAGS[k])
                = Min(window_size, PushedFor(MONITORED_TAGS[k])))
    /\ [][FetchInStep =>
             LET t == nodes[idx]
             IN  IF outcome'[TagIndex(t)] = "Failed"
                 THEN history' = history /\ pushed' = pushed
                 ELSE /\ t \in DOMAIN pushed'
                      /\ Len(pushed'[t]) = PushedFor(t) + 1
                      /\ WindowLen(history', t)
                            = Min(window_size, WindowLen(history, t) + 1)
                      /\ history'[t][Len(history'[t])] = pushed'[t][Len(pushed'[t])]
                      /\ \A u \in DOMAIN history' \ {t} :
                            u \in DOMAIN history /\ history'[u] = history[u]
                      /\ TotalPushed' = TotalPushed + 1]_vars

\* a full window that a failed fetch has just left alone, next to a signal
\* whose third fetch evicted its first value
C33_Witness ==
    /\ window_size = 2
    /\ "Vibration" \in DOMAIN history /\ "Temperature" \in DOMAIN history
    /\ cycle = 3
    /\ OutcomeOf("Vibration") = "Failed"
    /\ Len(pushed["Vibration"]) = 2
    /\ Len(history["Vibration"]) = 2
    /\ Len(pushed["Temperature"]) = 3
    /\ Len(history["Temperature"]) = 2


\* main() has no connected alert sink
NoSink == iot_client \in {"None", "unconnected"}

\* C35: a failed create or connect of the IoT Hub client, or an empty
\* connection string, is logged and main() goes on to connect the OPC-UA
\* client; the only fatal error is the OPC-UA connection's; without a sink
\* every successful fetch is still classified and every Anomalous result
\* still adds one to anomaly_count.
C35_SinkFailureIsNotFatal ==
    /\ [][pc = "start" => pc' = "opc_connect" /\ client' = client]_vars
    /\ []("Fatal Error" \in logged => client = "failed")
    /\ [](NoSink /\ pc \notin {"start"} =>
             \/ "Failed to connect to IoT Hub" \in logged
             \/ "No IoT Hub connection string" \in logged)
    /\ [][NoSink /\ FetchInStep /\ outcome'[TagIndex(nodes[idx])] # "Failed" =>
             /\ lastCall'.made /\ lastCall'.tag = nodes[idx]
             /\ outcome'[TagIndex(nodes[idx])] = Classification(lastCall'.ret)
             /\ anomaly_count' =
                   IF Classification(lastCall'.ret) = "Anomalous"
                   THEN anomaly_count + 1 ELSE anomaly_count]_vars

\* the IoT Hub client could not be created; the third cycle has classified
\* two anomalies so far and nothing was handed to send_message
C35_Witness ==
    /\ iot_client = "None"
    /\ "Failed to connect to IoT Hub" \in logged
    /\ client = "connected"
    /\ cycle = 3
    /\ anomaly_count >= 2
    /\ AnomalousNodesNow # {}
    /\ alerts = <<>>


\* the lookup of signal t raised at startup
LookupFailed(t) == FailedToGetNode(t) \in logged

\* the signals in the list of nodes
NodeTags == {nodes[k] : k \in 1..Len(nodes)}

\* C36: a signal whose node lookup raised at startup is not in the list of
\* nodes: in no cycle is it fetched or classified and it never gets a
\* window; the list is fixed once the lookups are over, and every cycle
\* fetches every signal of the list, one per step, in the order of
\* MONITORED_TAGS.
C36_FailedLookupExcludesSignal ==
    /\ [](\A k \in 1..Len(MONITORED_TAGS) :
             LET t == MONITORED_TAGS[k]
             IN  LookupFailed(t) =>
                    /\ t \notin NodeTags
                    /\ t \notin DOMAIN history
                    /\ t \notin DOMAIN pushed
                    /\ t \notin DOMAIN lastClass
                    /\ OutcomeOf(t) = "Pending")
    /\ [](pc # "get_nodes" /\ client = "connected" =>
             \A k \in 1..Len(MONITORED_TAGS) :
                LET t == MONITORED_TAGS[k]
                IN  t \in NodeTags <=> ~LookupFailed(t))
    /\ [](\A i, j \in 1..Len(nodes) :
             i < j => TagIndex(nodes[i]) < TagIndex(nodes[j]))
    /\ [][pc # "get_nodes" => nodes' = nodes]_vars
    /\ [][FetchInStep =>
             /\ idx \in 1..Len(nodes)
             /\ OutcomeOf(nodes[idx]) = "Pending"
             /\ outcome'[TagIndex(nodes[idx])] # "Pending"
             /\ \A k \in 1..Len(MONITORED_TAGS) :
                   k # TagIndex(nodes[idx]) => outcome'[k] = outcome[k]
             /\ \A k \in 1..Len(nodes) :
                   (OutcomeOf(nodes[k]) # "Pending") <=> (k < idx)]_vars
    /\ [](CycleDone =>
             \A k \in 1..Len(nodes) : OutcomeOf(nodes[k]) # "Pending")

\* the lookup of Vibration failed; three cycles have fetched Temperature and
\* Pressure and nothing else
C36_Witness ==
    /\ LookupFailed("Vibration")
    /\ nodes = <<"Temperature", "Pressure">>
    /\ cycle = 3
    /\ CycleDone
    /\ DOMAIN history = {"Temperature", "Pressure"}
    /\ Len(pushed["Temperature"]) = 3
    /\ Len(pushed["Pressure"]) = 3


\* threshold^2 compared with window_size - 1
ThresholdSqAbove == threshold[1] * threshold[1] > (window_size - 1) * threshold[2] * threshold[2]

ThresholdSqAtLeast == threshold[1] * threshold[1] >= (window_size - 1) * threshold[2] * threshold[2]

LastPushedWindow ==
    LastN(pushed[lastCall.tag], Min(window_size, Len(pushed[lastCall.tag])))

\* C34: add_sample appends a nan like any other value; while a nan is in
\* the window every evaluated call returns False with a nan z-score,
\* whatever the value given; the nan is in the window exactly as long as it
\* is among the last window_size values pushed, so a call can only return
\* Anomalous again once window_size further samples have been pushed.
C34_NanDisablesDetection ==
    lastCall.made =>
       /\ LastWindow[Len(LastWindow)] = lastCall.value
       /\ HasNan(LastWindow) <=> HasNan(LastPushedWindow)
       /\ HasNan(LastWindow) /\ lastCall.ret.is_anomaly # "None" =>
             /\ lastCall.ret.is_anomaly = "False"
             /\ lastCall.ret.z_score_sq = NaN
             /\ lastCall.ret.mean = NaN
       /\ Classification(lastCall.ret) = "Anomalous" => ~HasNan(LastPushedWindow)

\* the window of four has lost the nan it once held, with the fourth sample
\* after it, and the call is Anomalous again
C34_Witness ==
    /\ lastCall.made
    /\ window_size = 4
    /\ Len(pushed[lastCall.tag]) = 7
    /\ pushed[lastCall.tag][3] = NanSample
    /\ ~HasNan(LastWindow)
    /\ Classification(lastCall.ret) = "Anomalous"


\* the step is an on_created call
OnCreatedStep == col_log' # col_log

\* the event of the on_created call of the step
NewEvent == col_log'[Len(col_log')]

FailedStages == {"parse failed", "upload failed", "send failed"}

\* C37: processed_files only changes in an on_created call that completes,
\* having uploaded the blob (with a blob service) and sent the summary (with
\* an IoT Hub client), and gains the hash of that call and nothing else; a
\* call whose hash is in processed_files uploads nothing, sends nothing and
\* leaves the set as it was; a call that ends in the exception handler
\* leaves the set as it was, so its hash is still not in it and a later
\* event for the same content is processed again.
C37_ProcessedOnlyAfterCompletion ==
    /\ [][~OnCreatedStep => col_processed_files' = col_processed_files]_vars
    /\ [][OnCreatedStep =>
             /\ col_processed_files' # col_processed_files =>
                   /\ NewEvent.stage = "complete"
                   /\ col_processed_files' =
                         col_processed_files \cup {NewEvent.file_hash}
                   /\ col_blob_service # "None" =>
                         col_uploads' = Append(col_uploads, NewEvent.file_hash)
                   /\ col_iot_client # "None" =>
                         col_sends' = Append(col_sends, NewEvent.file_hash)
             /\ (NewEvent.stage # "ignored"
                    /\ NewEvent.file_hash \in col_processed_files) =>
                   /\ NewEvent.stage = "duplicate"
                   /\ col_uploads' = col_uploads
                   /\ col_sends' = col_sends
                   /\ col_processed_files' = col_processed_files
             /\ NewEvent.stage \in FailedStages =>
                   /\ col_processed_files' = col_processed_files
                   /\ NewEvent.file_hash \notin col_processed_files'
                   /\ col_sends' = col_sends]_vars
    /\ [](\A h \in col_processed_files :
             \E i \in 1..Len(col_log) :
                col_log[i].file_hash = h /\ col_log[i].stage = "complete")

\* content A was uploaded and the send raised; a second event for A was
\* processed again and completed; a third one is skipped
C37_Witness ==
    /\ col_blob_service = "client"
    /\ col_iot_client = "connected"
    /\ Len(col_log) = 3
    /\ col_log[1] = [content |-> "A", file_hash |-> "md5(A)", stage |-> "send failed"]
    /\ col_log[2] = [content |-> "A", file_hash |-> "md5(A)", stage |-> "complete"]
    /\ col_log[3] = [content |-> "A", file_hash |-> "md5(A)", stage |-> "duplicate"]
    /\ col_uploads = <<"md5(A)", "md5(A)">>
    /\ col_sends = <<"md5(A)">>
    /\ col_processed_files = {"md5(A)"}


\* the test cycle
PhaseCycle == {<<"IDLE", "DISCHARGING">>, <<"DISCHARGING", "REST">>,
               <<"REST", "CHARGING">>, <<"CHARGING", "IDLE">>}

\* C38: an update call changes test_phase at most once, and only from a
\* phase to its successor in IDLE -> DISCHARGING -> REST -> CHARGING ->
\* IDLE; phase_timer is 0 after an update that changed the phase;
\* state_of_charge is between 0 and 100 percent after every update.
C38_PhasesFollowTheCycle ==
    /\ [](bat_state_of_charge >= 0 /\ bat_state_of_charge <= 1000)
    /\ [](bat_changes <= 1)
    /\ [][bat_cycle_count' # bat_cycle_count =>
             /\ bat_test_phase' # bat_test_phase =>
                   /\ <<bat_test_phase, bat_test_phase'>> \in PhaseCycle
                   /\ bat_phase_timer' = 0
                   /\ bat_changes' = 1
             /\ bat_test_phase' = bat_test_phase =>
                   /\ bat_changes' = 0
                   /\ bat_phase_timer' > bat_phase_timer]_vars

\* four updates have taken the pack through the whole cycle: discharged to
\* 20 percent in 400 s, then charged for 1000 s, which the clamp of line 130
\* stops at 100 percent
C38_Witness ==
    /\ bat_cycle_count = 4
    /\ bat_test_phase = "IDLE"
    /\ bat_changes = 1
    /\ bat_phase_timer = 0
    /\ bat_state_of_charge = 1000
    /\ bat_pack_current = 75
    /\ bat_pack_temp = 24000


\* C39: in every report perform_inspection returns, totalPass + totalFail
\* is totalInspections: the statistics count the inspection reported.
C39_StatisticsIncludeReportedInspection ==
    vis_report.made =>
       vis_report.totalPass + vis_report.totalFail = vis_report.totalInspections

=============================================================================
